---- MODULE Spec2Model ----
(***************************************************************************)
(* Model of the mineral-map scripts: the Web Mercator projection           *)
(* (lat_lon_to_web_mercator), the categorical style lookups, and the       *)
(* load / transform / style / render / save pipeline of                    *)
(* critical_minerals_map.py and maps.py.                                   *)
(*                                                                         *)
(* Floating point.  A finite IEEE-754 double is held exactly, as a sign    *)
(* and a magnitude in units of 2^-FracBits; the magnitude is a sequence of *)
(* 15-bit limbs, least significant first, without leading zero limbs.      *)
(* Every arithmetic operation of the code is the exact operation followed  *)
(* by round-to-nearest-even to 53 significant bits (RoundToDouble).  The   *)
(* library functions np.tan and np.log are taken as correctly rounded:     *)
(* they are computed by series to 2^-FracBits and then rounded.            *)
(***************************************************************************)
EXTENDS Integers, Sequences, FiniteSets, TLC

(***************************************************************************)
(* Unsigned multi-limb integers                                            *)
(***************************************************************************)
LimbBits == 15
Base == 2 ^ LimbBits
\* number of limbs below the binary point: values are in units of 2^-120
FracLimbs == 8
FracBits == FracLimbs * LimbBits
MantissaBits == 53

Limb(a, i) == IF i >= 1 /\ i <= Len(a) THEN a[i] ELSE 0

Max(i, j) == IF i >= j THEN i ELSE j

\* a function on 1..n as an evaluated tuple
Tup(a) == SubSeq(a, 1, Len(a))

\* a without its leading (most significant) zero limbs
Trim(a) ==
    LET t == Tup(a)
    IN  IF t = <<>> THEN <<>>
        ELSE IF t[Len(t)] # 0 THEN t
        ELSE LET nz == {i \in 1..Len(t) : t[i] # 0}
             IN  IF nz = {} THEN <<>>
                 ELSE SubSeq(t, 1, CHOOSE i \in nz : \A j \in nz : j <= i)

Zeros(n) == Tup([i \in 1..n |-> 0])

\* a + b, the carry into limb i by carry look-ahead
BAdd(a, b) ==
    LET n == Max(Len(a), Len(b)) + 1
        s == Tup([i \in 1..n |-> Limb(a, i) + Limb(b, i)])
        CarryIn(i) == \E j \in 1..(i - 1) :
                         /\ s[j] >= Base
                         /\ \A k \in (j + 1)..(i - 1) : s[k] = Base - 1
    IN  Trim([i \in 1..n |-> (s[i] + (IF CarryIn(i) THEN 1 ELSE 0)) % Base])

\* a - b for a >= b
BSub(a, b) ==
    LET n == Max(Len(a), Len(b))
        d == Tup([i \in 1..n |-> Limb(a, i) - Limb(b, i)])
        BorrowIn(i) == \E j \in 1..(i - 1) :
                          /\ d[j] < 0
                          /\ \A k \in (j + 1)..(i - 1) : d[k] = 0
    IN  Trim([i \in 1..n |-> (d[i] - (IF BorrowIn(i) THEN 1 ELSE 0) + Base) % Base])

\* -1, 0, 1 as a < b, a = b, a > b (a and b without leading zero limbs)
BCmp(a, b) ==
    IF Len(a) < Len(b) THEN -1
    ELSE IF Len(a) > Len(b) THEN 1
    ELSE LET df == {i \in 1..Len(a) : a[i] # b[i]}
         IN  IF df = {} THEN 0
             ELSE LET t == CHOOSE i \in df : \A j \in df : j <= i
                  IN  IF a[t] < b[t] THEN -1 ELSE 1

\* a * k for 0 <= k <= Base
BMulSmall(a, k) ==
    LET p == Tup([i \in 1..Len(a) |-> a[i] * k])
    IN  BAdd(Tup([i \in 1..Len(a) |-> p[i] % Base]),
             <<0>> \o Tup([i \in 1..Len(a) |-> p[i] \div Base]))

\* floor(a / k) and a mod k for 1 <= k <= Base, from the top limb down
DivSmallStep(s) ==
    IF s.i = 0 THEN s
    ELSE LET v == s.r * Base + s.a[s.i]
         IN  [s EXCEPT !.i = s.i - 1, !.r = v % s.k, !.q = <<v \div s.k>> \o s.q]

\* DivSmallStep applied n times (a finished state stays as it is); the count is
\* halved at each level and the first half is evaluated before the second
RECURSIVE DivSmallLoop(_, _)
DivSmallLoop(s, n) ==
    IF n = 0 THEN s
    ELSE IF n = 1 THEN DivSmallStep(s)
    ELSE LET y == DivSmallLoop(s, n \div 2)
         IN  IF y = y THEN DivSmallLoop(y, n - (n \div 2)) ELSE y

DivSmallRun(a, k) == DivSmallLoop([a |-> a, k |-> k, i |-> Len(a), r |-> 0, q |-> <<>>], 32)

BDivSmall(a, k) == Trim(DivSmallRun(a, k).q)
BModSmall(a, k) == DivSmallRun(a, k).r

ShiftLimbsLeft(a, n) == IF a = <<>> THEN a ELSE Zeros(n) \o a
ShiftLimbsRight(a, n) == IF Len(a) <= n THEN <<>> ELSE SubSeq(a, n + 1, Len(a))

\* column c of the product a * b: the low halves of the limb products
\* a[i] b[c+1-i] and the high halves of a[i] b[c-i], for i in lo..hi
RECURSIVE ColSum(_, _, _, _, _)
ColSum(a, b, c, lo, hi) ==
    IF lo > hi THEN 0
    ELSE IF lo = hi
         THEN ((a[lo] * Limb(b, c + 1 - lo)) % Base) + ((a[lo] * Limb(b, c - lo)) \div Base)
    ELSE LET mid == (lo + hi) \div 2
         IN  ColSum(a, b, c, lo, mid) + ColSum(a, b, c, mid + 1, hi)

\* a * b (at most 32 limbs each)
BMul(a, b) ==
    LET n   == Len(a) + Len(b)
        col == Tup([c \in 1..n |-> ColSum(a, b, c, 1, Len(a))])
    IN  BAdd(Tup([c \in 1..n |-> col[c] % Base]),
             <<0>> \o Tup([c \in 1..n |-> col[c] \div Base]))

RECURSIVE SmallBitLen(_)
SmallBitLen(k) == IF k = 0 THEN 0 ELSE 1 + SmallBitLen(k \div 2)

\* number of significant bits of a (a without leading zero limbs)
BitLen(a) == IF a = <<>> THEN 0
             ELSE LimbBits * (Len(a) - 1) + SmallBitLen(a[Len(a)])

\* bit j (0 = least significant) of a
Bit(a, j) == (Limb(a, (j \div LimbBits) + 1) \div (2 ^ (j % LimbBits))) % 2

BPow2(s) == Zeros(s \div LimbBits) \o <<2 ^ (s % LimbBits)>>

\* a * 2^s and floor(a / 2^s)
BShl(a, s) ==
    LET r == s % LimbBits
        n == Len(a) + 1
    IN  ShiftLimbsLeft(
            Trim([i \in 1..n |-> ((Limb(a, i) % (2 ^ (LimbBits - r))) * (2 ^ r))
                                 + (Limb(a, i - 1) \div (2 ^ (LimbBits - r)))]),
            s \div LimbBits)

BShr(a, s) ==
    LET r == s % LimbBits
        h == ShiftLimbsRight(a, s \div LimbBits)
    IN  Trim([i \in 1..Len(h) |-> (h[i] \div (2 ^ r))
                                  + ((Limb(h, i + 1) % (2 ^ r)) * (2 ^ (LimbBits - r)))])

\* a mod 2^s
BLow(a, s) ==
    LET q == s \div LimbBits
        r == s % LimbBits
    IN  Trim([i \in 1..(q + 1) |-> IF i <= q THEN Limb(a, i)
                                           ELSE Limb(a, i) % (2 ^ r)])

\* the largest d < Base with d * b <= r, given r < Base * b: the bits of d
\* are decided from the top (s.i is the next bit to decide)
QuotDigitStep(s) ==
    IF s.i < 0 THEN s
    ELSE IF BCmp(BMulSmall(s.b, s.d + 2 ^ s.i), s.r) <= 0
         THEN [s EXCEPT !.i = s.i - 1, !.d = s.d + 2 ^ s.i]
         ELSE [s EXCEPT !.i = s.i - 1]

\* QuotDigitStep applied n times (a finished state stays as it is); the count is
\* halved at each level and the first half is evaluated before the second
RECURSIVE QuotDigitLoop(_, _)
QuotDigitLoop(s, n) ==
    IF n = 0 THEN s
    ELSE IF n = 1 THEN QuotDigitStep(s)
    ELSE LET y == QuotDigitLoop(s, n \div 2)
         IN  IF y = y THEN QuotDigitLoop(y, n - (n \div 2)) ELSE y

QuotDigit(r, b) == QuotDigitLoop([r |-> r, b |-> b, i |-> LimbBits - 1, d |-> 0], 16).d

\* floor(a / b) for b > 0 (a of at most 32 limbs), by long division from the
\* top limb of a; the result is <<quotient, remainder>>
DivLimbsStep(s) ==
    IF s.i = 0 THEN s
    ELSE LET r2 == Trim(<<s.a[s.i]>> \o s.r)
             d  == QuotDigit(r2, s.b)
         IN  [s EXCEPT !.i = s.i - 1, !.r = BSub(r2, BMulSmall(s.b, d)),
                       !.q = <<d>> \o s.q]

\* DivLimbsStep applied n times (a finished state stays as it is); the count is
\* halved at each level and the first half is evaluated before the second
RECURSIVE DivLimbsLoop(_, _)
DivLimbsLoop(s, n) ==
    IF n = 0 THEN s
    ELSE IF n = 1 THEN DivLimbsStep(s)
    ELSE LET y == DivLimbsLoop(s, n \div 2)
         IN  IF y = y THEN DivLimbsLoop(y, n - (n \div 2)) ELSE y

BDivMod(a, b) ==
    LET s == DivLimbsLoop([a |-> a, b |-> b, i |-> Len(a), r |-> <<>>, q |-> <<>>], 32)
    IN  <<Trim(s.q), s.r>>

\* a nonnegative machine integer as limbs
RECURSIVE BFromNat(_)
BFromNat(n) == IF n = 0 THEN <<>> ELSE <<n % Base>> \o BFromNat(n \div Base)

(***************************************************************************)
(* Fixed point: a magnitude m stands for m * 2^-FracBits                   *)
(***************************************************************************)
FxOne == BPow2(FracBits)
FxFromNat(n) == ShiftLimbsLeft(BFromNat(n), FracLimbs)
FxMul(a, b) == ShiftLimbsRight(BMul(a, b), FracLimbs)
FxDiv(a, b) == BDivMod(ShiftLimbsLeft(a, FracLimbs), b)[1]

\* round a magnitude to 53 significant bits, ties to even
RoundBits(a) ==
    LET L == BitLen(a)
        s == L - MantissaBits
    IN  IF s <= 0 THEN a
        ELSE LET low  == BLow(a, s)
                 high == BSub(a, low)
                 c    == BCmp(low, BPow2(s - 1))
             IN  IF c > 0 \/ (c = 0 /\ Bit(a, s) = 1)
                 THEN BAdd(high, BPow2(s)) ELSE high

(***************************************************************************)
(* Doubles: [k, neg, m] with k one of "num", "inf", "nan"; a finite value  *)
(* is (-1)^neg * m * 2^-FracBits with m of at most 53 significant bits.    *)
(* Zero is held unsigned (0.0 == -0.0 in the code's comparisons).          *)
(***************************************************************************)
DNum(neg, m) == [k |-> "num", neg |-> (neg /\ m # <<>>), m |-> m]
DInf(neg) == [k |-> "inf", neg |-> neg, m |-> <<>>]
DNaN == [k |-> "nan", neg |-> FALSE, m |-> <<>>]
DZero == DNum(FALSE, <<>>)

RoundToDouble(neg, m) == DNum(neg, RoundBits(m))

\* an integer literal n as a double (|n| < 2^31 is exact)
DInt(n) == IF n >= 0 THEN DNum(FALSE, FxFromNat(n)) ELSE DNum(TRUE, FxFromNat(-n))

\* the decimal literal c/scale as a double: the nearest double to the
\* quotient (scale is 100 or 10000)
DDecimal(c, scale) ==
    LET a == IF c >= 0 THEN c ELSE -c
        q == BDivSmall(FxFromNat(a), scale)
        sticky == IF BModSmall(FxFromNat(a), scale) = 0 THEN <<>> ELSE <<1>>
    IN  RoundToDouble(c < 0, BAdd(q, IF Bit(q, 0) = 1 THEN <<>> ELSE sticky))

DNeg(a) == IF a.k = "nan" THEN a
           ELSE IF a.k = "inf" THEN DInf(~a.neg)
           ELSE DNum(~a.neg, a.m)

\* a * b
DMul(a, b) ==
    IF a.k = "nan" \/ b.k = "nan" THEN DNaN
    ELSE IF a.k = "inf" \/ b.k = "inf"
         THEN IF (a.k = "num" /\ a.m = <<>>) \/ (b.k = "num" /\ b.m = <<>>)
              THEN DNaN ELSE DInf(a.neg # b.neg)
    ELSE DNum(a.neg # b.neg,
              ShiftLimbsRight(RoundBits(BMul(a.m, b.m)), FracLimbs))

\* a + b
DAdd(a, b) ==
    IF a.k = "nan" \/ b.k = "nan" THEN DNaN
    ELSE IF a.k = "inf" /\ b.k = "inf"
         THEN (IF a.neg = b.neg THEN a ELSE DNaN)
    ELSE IF a.k = "inf" THEN a
    ELSE IF b.k = "inf" THEN b
    ELSE IF a.neg = b.neg THEN RoundToDouble(a.neg, BAdd(a.m, b.m))
    ELSE IF BCmp(a.m, b.m) >= 0 THEN RoundToDouble(a.neg, BSub(a.m, b.m))
    ELSE RoundToDouble(b.neg, BSub(b.m, a.m))

DSub(a, b) == DAdd(a, DNeg(b))

\* a / b for finite a and finite nonzero b; a remainder is kept as a sticky bit
DDiv(a, b) ==
    IF a.k = "nan" \/ b.k = "nan" THEN DNaN
    ELSE IF a.k = "inf" THEN (IF b.k = "inf" THEN DNaN ELSE DInf(a.neg # b.neg))
    ELSE IF b.k = "inf" THEN DZero
    ELSE IF b.m = <<>> THEN (IF a.m = <<>> THEN DNaN ELSE DInf(a.neg # b.neg))
    ELSE LET qr == BDivMod(ShiftLimbsLeft(a.m, FracLimbs), b.m)
             q  == IF qr[2] = <<>> \/ Bit(qr[1], 0) = 1 THEN qr[1]
                   ELSE BAdd(qr[1], <<1>>)
         IN  RoundToDouble(a.neg # b.neg, q)

\* a / 2^s (exact: no value of the model is near the subnormal range)
DDivPow2(a, s) == IF a.k = "num" THEN DNum(a.neg, BShr(a.m, s)) ELSE a

\* comparisons of finite doubles
DLess(a, b) ==
    IF a.neg /\ ~b.neg THEN TRUE
    ELSE IF ~a.neg /\ b.neg THEN FALSE
    ELSE IF a.neg THEN BCmp(a.m, b.m) > 0
    ELSE BCmp(a.m, b.m) < 0

DLeq(a, b) == a = b \/ DLess(a, b)
DAbs(a) == IF a.k = "num" THEN DNum(FALSE, a.m) ELSE IF a.k = "inf" THEN DInf(FALSE) ELSE a
DFinite(a) == a.k = "num"

(***************************************************************************)
(* pi, and the library functions of numpy that the projection calls        *)
(***************************************************************************)
\* sum over j >= 0 of (-1)^j t^(2j+1)/(2j+1) for t = 1/k (Gregory's series),
\* as positive part and negative part
GregoryStep(s) ==
    IF s.t = <<>> THEN s
    ELSE [s EXCEPT !.t = BDivSmall(BDivSmall(s.t, s.k), s.k), !.n = s.n + 2,
                   !.plus = ~s.plus,
                   !.pos = IF s.plus THEN BAdd(s.pos, BDivSmall(s.t, s.n)) ELSE s.pos,
                   !.neg = IF s.plus THEN s.neg ELSE BAdd(s.neg, BDivSmall(s.t, s.n))]

\* GregoryStep applied n times (a finished state stays as it is); the count is
\* halved at each level and the first half is evaluated before the second
RECURSIVE GregoryLoop(_, _)
GregoryLoop(s, n) ==
    IF n = 0 THEN s
    ELSE IF n = 1 THEN GregoryStep(s)
    ELSE LET y == GregoryLoop(s, n \div 2)
         IN  IF y = y THEN GregoryLoop(y, n - (n \div 2)) ELSE y

AtanInv(k) ==
    LET s == GregoryLoop([t |-> BDivSmall(FxOne, k), k |-> k, n |-> 1,
                                  plus |-> TRUE, pos |-> <<>>, neg |-> <<>>], 64)
    IN  BSub(s.pos, s.neg)

\* Machin: pi = 16 atan(1/5) - 4 atan(1/239)
PiReal == BSub(BMulSmall(AtanInv(5), 16), BMulSmall(AtanInv(239), 4))

\* np.pi: the double nearest to pi (0x400921FB54442D18)
NP_PI == RoundToDouble(FALSE, PiReal)

\* numpy's deg2rad factor, NPY_PI / 180.0, computed in double
DEG2RAD == DDiv(NP_PI, DInt(180))

\* sum of the alternating series t, t z2/((n+1)(n+2)), ... as positive part
\* and negative part
AltSeriesStep(s) ==
    IF s.t = <<>> THEN s
    ELSE [s EXCEPT !.t = BDivSmall(FxMul(s.t, s.z2), (s.n + 1) * (s.n + 2)),
                   !.n = s.n + 2, !.plus = ~s.plus,
                   !.pos = IF s.plus THEN BAdd(s.pos, s.t) ELSE s.pos,
                   !.neg = IF s.plus THEN s.neg ELSE BAdd(s.neg, s.t)]

\* AltSeriesStep applied n times (a finished state stays as it is); the count is
\* halved at each level and the first half is evaluated before the second
RECURSIVE AltSeriesLoop(_, _)
AltSeriesLoop(s, n) ==
    IF n = 0 THEN s
    ELSE IF n = 1 THEN AltSeriesStep(s)
    ELSE LET y == AltSeriesLoop(s, n \div 2)
         IN  IF y = y THEN AltSeriesLoop(y, n - (n \div 2)) ELSE y

AltSeries(t, z2, n) ==
    LET s == AltSeriesLoop([t |-> t, z2 |-> z2, n |-> n, plus |-> TRUE,
                                    pos |-> <<>>, neg |-> <<>>], 64)
    IN  <<s.pos, s.neg>>

\* a signed fixed-point value <<neg, magnitude>> from <<pos, neg>> parts
Signed(pn) == IF BCmp(pn[1], pn[2]) >= 0 THEN <<FALSE, BSub(pn[1], pn[2])>>
              ELSE <<TRUE, BSub(pn[2], pn[1])>>

SinFx(z) == Signed(AltSeries(z, FxMul(z, z), 1))
CosFx(z) == Signed(AltSeries(FxOne, FxMul(z, z), 0))

\* np.tan: sin/cos of the exact argument, rounded once
TanExact(z) ==
    IF z.k # "num" THEN DNaN
    ELSE LET s == SinFx(z.m)
             c == CosFx(z.m)
         IN  IF s[2] = <<>> THEN DZero
             ELSE IF c[2] = <<>> THEN DInf(z.neg # s[1])
             ELSE LET qr == BDivMod(ShiftLimbsLeft(s[2], FracLimbs), c[2])
                      q  == IF qr[2] = <<>> \/ Bit(qr[1], 0) = 1 THEN qr[1]
                            ELSE BAdd(qr[1], <<1>>)
                  IN  RoundToDouble((z.neg # s[1]) # c[1], q)

\* sum over j >= 0 of u^(2j+1)/(2j+1) = atanh(u), 0 <= u <= 1/3
AtanhStep(s) ==
    IF s.t = <<>> THEN s
    ELSE [s EXCEPT !.t = FxMul(s.t, s.u2), !.n = s.n + 2,
                   !.acc = BAdd(s.acc, BDivSmall(s.t, s.n))]

\* AtanhStep applied n times (a finished state stays as it is); the count is
\* halved at each level and the first half is evaluated before the second
RECURSIVE AtanhLoop(_, _)
AtanhLoop(s, n) ==
    IF n = 0 THEN s
    ELSE IF n = 1 THEN AtanhStep(s)
    ELSE LET y == AtanhLoop(s, n \div 2)
         IN  IF y = y THEN AtanhLoop(y, n - (n \div 2)) ELSE y

Atanh(u) == AtanhLoop([t |-> u, u2 |-> FxMul(u, u), n |-> 1, acc |-> <<>>], 64).acc

\* ln 2 = 2 atanh(1/3)
Ln2 == BMulSmall(Atanh(BDivSmall(FxOne, 3)), 2)

\* np.log: ln(t) = e ln 2 + ln(m) with t = 2^e m, m in [3/4, 3/2], rounded once;
\* log(0) is -inf and the log of a negative number is nan (numpy warns, it
\* does not raise)
LogExact(t) ==
    IF t.k = "nan" THEN DNaN
    ELSE IF t.k = "inf" THEN (IF t.neg THEN DNaN ELSE t)
    ELSE IF t.m = <<>> THEN DInf(TRUE)
    ELSE IF t.neg THEN DNaN
    ELSE LET e0  == BitLen(t.m) - 1 - FracBits
             m   == IF e0 >= 0 THEN BShr(t.m, e0) ELSE BShl(t.m, -e0)
             big == BCmp(BMulSmall(m, 2), FxFromNat(3)) > 0
             e   == IF big THEN e0 + 1 ELSE e0
             two == FxFromNat(2)
             u   == IF big THEN FxDiv(BSub(two, m), BAdd(two, m))
                    ELSE FxDiv(BSub(m, FxOne), BAdd(m, FxOne))
             lm  == BMulSmall(Atanh(u), 2)
             le  == BMulSmall(Ln2, IF e >= 0 THEN e ELSE -e)
             \* positive and negative parts of e ln2 + ln m
             pos == BAdd(IF e >= 0 THEN le ELSE <<>>, IF big THEN <<>> ELSE lm)
             neg == BAdd(IF e >= 0 THEN <<>> ELSE le, IF big THEN lm ELSE <<>>)
             sg  == Signed(<<pos, neg>>)
         IN  RoundToDouble(sg[1], sg[2])

(***************************************************************************)
(* Input data                                                              *)
(***************************************************************************)
Range(f) == {f[i] : i \in DOMAIN f}
\* a function as an explicit table (each value computed once)
Table(f) == f @@ <<>>

csv_files ==
    << "data/critical_minerals_tungsten.csv",
       "data/critical_minerals_antimony.csv",
       "data/critical_minerals_graphite.csv",
       "data/critical_minerals_chromium_manganese.csv",
       "data/critical_minerals_gallium_germanium.csv",
       "data/critical_minerals_rare_earths.csv",
       "data/critical_minerals_tantalum_tin.csv",
       "data/critical_minerals_fluorine.csv",
       "data/critical_minerals_contamination.csv" >>

\* a missing CSV cell: pandas reads it (and the text "nan") as the float NaN,
\* which equals no string and is the key of no table
NaN == "nan"

\* one line of a CSV file; Latitude and Longitude are the decimal text in
\* hundredths of a degree
CsvRow(name, lat, lon, element, type, status, notes) ==
    [Name |-> name, Latitude |-> lat, Longitude |-> lon, Element |-> element,
     Deposit_Type |-> type, Status |-> status, Notes |-> notes]

\* the lines each file holds on disk when it can be read (the fifth file
\* holds its header line only)
FileRows ==
    << << CsvRow("Pine Creek Mine", 3742, -11873, "Tungsten", "Skarn", "Historic", "CA"),
          CsvRow("Stibnite-Yellow Pine", 4493, -11535, "Tungsten, Antimony, Gold",
                 "Vein/Replacement", "Development", "ID") >>,
       << CsvRow("Stibnite Gold Project", 4493, -11535, "Antimony", "Vein/Replacement",
                 "Development", "ID"),
          CsvRow("Yellow Pine Pit", 4493, -11535, "Antimony", "Superfund", "Development",
                 "ID") >>,
       << CsvRow("Graphite Creek", 6502, -16485, "graphite", "Disseminated Flake",
                 "operating", "AK"),
          CsvRow("Coosa Graphite", 3742, -11873, "Graphite", "Disseminated Flake",
                 "Operating", "AL") >>,
       << CsvRow("Stillwater Complex", 4755, -11615, "Chromium", "Stratiform",
                 "Operating/Resource", "MT"),
          CsvRow("Emily Deposit", 4755, -11615, "Manganese", "Sedimentary", "Development",
                 "MN") >>,
       << >>,
       << CsvRow("Elk Creek", 4493, -11535, "Niobium/REE", "Carbonatite", "Exploration",
                 "NE"),
          CsvRow("South Pole Station", -9000, -11615, NaN, NaN, NaN, NaN) >>,
       << CsvRow("Tin Mountain Pegmatite", 4493, -11535, "Tantalum/Tin", "LCT Pegmatite",
                 "Historic", "SD"),
          CsvRow("Bokan Mountain", 6502, -16485, "Tantalum (byproduct)", "Peralkaline",
                 "Operating/Resource", "AK") >>,
       << CsvRow("North Pole Prospect", 9000, -11873, "Fluorine/Beryllium", "Volcanogenic",
                 "Operating", "UT"),
          CsvRow("Mistyped Latitude", 9500, -11615, "Fluorine", "superfund", "Historic",
                 "CO") >>,
       << CsvRow("Bunker Hill", 4755, -11615, "Chromium", "Superfund",
                 "Operating/Resource", "ID"),
          CsvRow("Silver Bow Creek", 4493, -11535, "As/Pb/Zn", "Superfund", "Remediation",
                 "MT") >> >>

\* why pd.read_csv fails on a file that cannot be loaded
LoadError ==
    << "No such file or directory", "No such file or directory",
       "Error tokenizing data", "No such file or directory",
       "No columns to parse from file", "No such file or directory",
       "Permission denied", "No such file or directory",
       "No such file or directory" >>

\* latitude/longitude pairs, in hundredths of a degree, the projection is
\* called with directly: the origin, (45, -93), points near the edge of the
\* valid range, the poles and a latitude beyond them, and two data points
CallPoints ==
    { <<0, 0>>, <<4500, -9300>>, <<8499, 18000>>, <<-8499, -18000>>,
      <<9000, 0>>, <<-9000, 0>>, <<9500, -9300>>,
      <<3742, -11873>>, <<4493, -11535>> }

\* the arrays the projection is called with: points of one CSV file
ArrayPoints == << <<3742, -11873>>, <<4493, -11535>>, <<6502, -16485>> >>

\* the map bounds of critical_minerals_map.py and ree_grant_map.py (US and
\* Alaska corners) and of maps.py, as <<lat, lon>> in hundredths of a degree
cmm_bounds == << <<2400, -12500>>, <<5000, -6600>>, <<5500, -17000>>, <<6800, -14000>> >>
maps_bounds == << <<2450, -12500>>, <<4950, -6650>>, <<5100, -18000>>, <<7100, -13000>> >>
ree_bounds == << <<2400, -12500>>, <<5000, -6600>> >>

(***************************************************************************)
(* maps.py: each entry is <<name, lat, lon, element(s), type, status,      *)
(* notes>>, with lat and lon in hundredths of a degree                     *)
(***************************************************************************)
deposits ==
    <<
       <<"Pine Creek Mine", 3742, -11873, "Tungsten",
         "Skarn", "Historic",
         "CA - Bishop area, major WWII producer">>,
       <<"Stibnite-Yellow Pine", 4493, -11535, "Tungsten, Antimony, Gold",
         "Vein/Replacement", "Development",
         "ID - Largest US tungsten producer 1942-1944">>,
       <<"Climax Mine", 3938, -10617, "Tungsten, Molybdenum",
         "Porphyry", "Operating",
         "CO - Byproduct tungsten from Mo mining">>,
       <<"Strawberry Mine", 3872, -11985, "Tungsten",
         "Skarn", "Historic",
         "NV - Great Basin tungsten district">>,
       <<"Mill City District", 4005, -11812, "Tungsten",
         "Skarn", "Historic",
         "NV - Humboldt County">>,
       <<"Hamme District", 3652, -7835, "Tungsten",
         "Vein", "Historic",
         "NC/VA - Tungsten Queen Mine, produced 1.1 Mt WO3">>,
       <<"Johnson Lake Mine", 3905, -11430, "Tungsten",
         "Skarn", "Historic",
         "NV - Snake Range, Great Basin NP area">>,
       <<"Pilot Mountains", 4015, -11785, "Tungsten",
         "Skarn", "Historic",
         "NV - Pershing County">>,
       <<"Golconda Summit", 4095, -11750, "Tungsten",
         "Skarn", "Historic",
         "NV - Humboldt County">>,
       <<"Bishop District", 3735, -11840, "Tungsten",
         "Skarn", "Historic",
         "CA - Inyo County, multiple mines">>,
       <<"Luckey Baldwin", 3415, -11765, "Tungsten",
         "Vein", "Historic",
         "CA - San Bernardino County">>,
       <<"Atolia District", 3505, -11760, "Tungsten",
         "Vein", "Historic",
         "CA - San Bernardino County">>,
       <<"Idaho Springs", 3975, -10552, "Tungsten",
         "Vein", "Historic",
         "CO - Clear Creek County">>,
       <<"Boulder County District", 4002, -10535, "Tungsten",
         "Vein", "Historic",
         "CO - Multiple tungsten veins">>,
       <<"Butte District", 4602, -11252, "Tungsten, Manganese",
         "Vein/Replacement", "Historic",
         "MT - Polymetallic district">>,
       <<"Stibnite Gold Project", 4493, -11535, "Antimony, Gold, Tungsten",
         "Vein/Replacement", "Development",
         "ID - Largest US antimony resource, DOD-backed">>,
       <<"Scrafford Mine", 6492, -14752, "Antimony",
         "Vein", "Historic",
         "AK - Fairbanks district, WWI-WWII producer">>,
       <<"Sliscovich Mine", 6475, -16535, "Antimony",
         "Vein", "Historic",
         "AK - Nome area">>,
       <<"Estelle Project", 6185, -15265, "Antimony, Gold",
         "Vein", "Exploration",
         "AK - West Susitna, high-grade Sb discovery">>,
       <<"Treasure Creek", 6495, -14760, "Antimony, Gold",
         "Vein", "Exploration",
         "AK - Felix Gold project">>,
       <<"Coyote Antimony District", 3835, -11285, "Antimony",
         "Vein", "Historic",
         "UT - Piute County">>,
       <<"White Caps Mine", 3805, -11705, "Antimony, Gold, Arsenic",
         "Carbonate Replacement", "Historic",
         "NV - Manhattan district">>,
       <<"Graphite Creek", 6502, -16485, "Graphite",
         "Disseminated Flake", "Development",
         "AK - Largest US graphite deposit, 10+ Mt @ 7.8%">>,
       <<"Coosa Graphite", 3295, -8625, "Graphite",
         "Disseminated Flake", "Development",
         "AL - Alabama Graphite Belt, 26 Mt @ 2.89%">>,
       <<"Bama Mine", 3278, -8665, "Graphite",
         "Disseminated Flake", "Historic",
         "AL - Chilton County, highest quality in AL">>,
       <<"Ceylon Mine", 3308, -8615, "Graphite",
         "Disseminated Flake", "Exploration",
         "AL - Coosa County, WWII producer">>,
       <<"Burnet District", 3075, -9825, "Graphite",
         "Disseminated Flake", "Historic",
         "TX - Llano County, Southwestern Graphite Co.">>,
       <<"Ticonderoga", 4385, -7342, "Graphite",
         "Vein", "Historic",
         "NY - Adirondack graphite deposits">>,
       <<"Chester County", 3995, -7575, "Graphite",
         "Disseminated Flake", "Historic",
         "PA - Eastern Pennsylvania deposits">>,
       <<"Stillwater Complex", 4538, -11005, "Chromium, PGE, Cobalt, Nickel",
         "Stratiform", "Operating/Resource",
         "MT - Only US chromium resource, chromite seams A-G">>,
       <<"Red Mountain", 6105, -14560, "Chromium",
         "Podiform", "Resource",
         "AK - Chugach Mountains ophiolite">>,
       <<"Goodnews Bay", 5912, -16158, "Chromium",
         "Podiform/Placer", "Historic",
         "AK - Platinum placer with chromite">>,
       <<"Emily Deposit", 4672, -9395, "Manganese",
         "Sedimentary", "Development",
         "MN - Cuyuna Range, richest US Mn deposit">>,
       <<"Butte Mn District", 4602, -11252, "Manganese",
         "Vein/Replacement", "Historic",
         "MT - Polymetallic with Mn">>,
       <<"Artillery Peak", 3435, -11355, "Manganese",
         "Sedimentary", "Historic",
         "AZ - Mohave County">>,
       <<"Three Kids Mine", 3608, -11488, "Manganese",
         "Sedimentary", "Historic",
         "NV - Clark County, WWII strategic producer">>,
       <<"Apex Mine", 3715, -11355, "Gallium, Germanium",
         "Carbonate Replacement", "Historic",
         "UT - Only US primary Ga/Ge producer (1980s)">>,
       <<"Round Top", 3105, -10548, "Gallium, REE, Lithium",
         "Peralkaline", "Development",
         "TX - Polymetallic with significant Ga resource">>,
       <<"Red Dog Mine", 6808, -16285, "Germanium, Indium (byproduct)",
         "Sedex Zn-Pb", "Operating",
         "AK - World's largest zinc mine, Ge potential">>,
       <<"Clarksville Zn Refinery", 3653, -8735, "Gallium, Germanium (recovery)",
         "Processing", "Development",
         "TN - Nyrstar planning Ga/Ge recovery from waste">>,
       <<"East Tennessee Zn District", 3615, -8355, "Germanium, Indium (byproduct)",
         "MVT Zn-Pb", "Operating",
         "TN - Multiple Zn mines with Ge potential">>,
       <<"Elk Creek", 4028, -9618, "Niobium, REE, Scandium, Titanium",
         "Carbonatite", "Development",
         "NE - 2nd largest US REE, major Nb resource">>,
       <<"Bokan Mountain", 5492, -13215, "Niobium, REE, Tantalum",
         "Peralkaline", "Development",
         "AK - HREE-enriched, Dotson Ridge deposit">>,
       <<"Round Top", 3105, -10548, "Tantalum, REE, Gallium",
         "Peralkaline", "Development",
         "TX - 480+ Mt @ 67 ppm Ta2O5">>,
       <<"Tin Mountain Pegmatite", 4378, -10355, "Tantalum, Tin, Niobium",
         "LCT Pegmatite", "Historic",
         "SD - Black Hills, columbite-tantalite">>,
       <<"Etta Mine", 4385, -10352, "Tantalum, Lithium",
         "LCT Pegmatite", "Historic",
         "SD - Black Hills, giant spodumene crystals">>,
       <<"Kings Mountain", 3525, -8135, "Tantalum, Lithium, Tin",
         "LCT Pegmatite", "Historic",
         "NC - Largest US Li pegmatite, Ta coproduct">>,
       <<"Lost River", 6547, -16715, "Tin, Tungsten, Fluorine",
         "Greisen/Skarn", "Resource",
         "AK - Seward Peninsula, significant Sn">>,
       <<"Cape Creek", 6555, -16725, "Tin",
         "Placer", "Historic",
         "AK - Seward Peninsula placers">>,
       <<"Tinton", 4445, -10402, "Tin",
         "Pegmatite/Greisen", "Historic",
         "SD - Black Hills tin district">>,
       <<"Irish Creek", 3795, -7915, "Tin",
         "Greisen", "Historic",
         "VA - Rockbridge County">>,
       <<"Franklin Mountains", 3190, -10648, "Tin",
         "Vein", "Resource",
         "TX - El Paso County">>,
       <<"Elk Creek", 4028, -9618, "Scandium, Niobium, REE",
         "Carbonatite", "Development",
         "NE - Major Sc resource with REE">>,
       <<"Bokan Mountain", 5492, -13215, "Yttrium, HREE",
         "Peralkaline", "Development",
         "AK - HREE-enriched including Y">>,
       <<"Bear Lodge", 4448, -10445, "Yttrium, REE",
         "Carbonatite", "Development",
         "WY - REE with Y enrichment">>,
       <<"Round Top", 3105, -10548, "Yttrium, HREE",
         "Peralkaline", "Development",
         "TX - Y-enriched REE deposit">>,
       <<"Gabbs", 3887, -11792, "Magnesium",
         "Evaporite/Brine", "Historic",
         "NV - Magnesite deposits">>,
       <<"Brine Lake", 4085, -11222, "Magnesium",
         "Brine", "Operating",
         "UT - Great Salt Lake Mg production">>,
       <<"Dolomite deposits", 3615, -11515, "Magnesium",
         "Carbonate", "Resource",
         "NV - Various dolomite sources">>,
       <<"Illinois-Kentucky District", 3755, -8835, "Fluorine",
         "MVT", "Historic",
         "IL/KY - Rosiclare, largest US fluorspar producer">>,
       <<"Spor Mountain", 3975, -11320, "Fluorine, Beryllium",
         "Volcanogenic", "Operating",
         "UT - Brush Wellman operation">>,
       <<"Jamestown District", 4012, -10538, "Fluorine",
         "Vein", "Historic",
         "CO - Boulder County">>,
       <<"Northgate District", 4098, -10595, "Fluorine",
         "Vein", "Historic",
         "CO - Jackson County">>,
       <<"Park City", 4065, -11150, "Bismuth (byproduct)",
         "Carbonate Replacement", "Historic",
         "UT - Bi from Ag-Pb-Zn mining">>,
       <<"Coeur d'Alene", 4755, -11615, "Bismuth (byproduct)",
         "Vein", "Historic",
         "ID - Bi from Ag-Pb mining">>
    >>

contamination_sites ==
    <<
       <<"Bunker Hill Superfund", 4755, -11615, "Arsenic, Lead, Cadmium",
         "Mining/Smelting", "Cleanup Ongoing",
         "ID - 1,500 sq mi, one of largest Superfund sites">>,
       <<"Iron King Mine Superfund", 3445, -11225, "Arsenic, Lead",
         "Mining", "Cleanup Ongoing",
         "AZ - Dewey-Humboldt">>,
       <<"Summitville Mine", 3742, -10660, "Arsenic, Heavy Metals",
         "Mining", "Superfund",
         "CO - Acid mine drainage disaster">>,
       <<"California Gulch", 3925, -10630, "Arsenic, Lead, Zinc",
         "Mining/Smelting", "Superfund",
         "CO - Leadville historic mining">>,
       <<"Colorado Smelter", 3828, -10460, "Arsenic, Lead",
         "Smelting", "Superfund",
         "CO - Pueblo residential contamination">>,
       <<"Arsenic Mine Kent NY", 4145, -7370, "Arsenic",
         "Mining", "Superfund",
         "NY - Historic arsenic mine">>,
       <<"Brinton Mine", 3705, -8035, "Arsenic",
         "Mining", "Historic",
         "VA - Floyd County, only VA arsenic producer">>,
       <<"Gold Hill District", 4050, -11205, "Arsenic",
         "Mining", "Historic Producer",
         "UT - Tooele County, WWI-WWII As production">>,
       <<"Kennecott North Zone", 4075, -11215, "Arsenic, Lead, Heavy Metals",
         "Mining/Smelting", "Superfund",
         "UT - Salt Lake Valley contamination">>,
       <<"Eureka Mills", 3995, -11212, "Arsenic, Lead",
         "Mining/Smelting", "Superfund",
         "UT - Historic mining town">>,
       <<"Davenport Smelter", 4057, -11185, "Arsenic, Lead",
         "Smelting", "Superfund",
         "UT - Sandy, residential contamination">>,
       <<"Clear Creek/Central City", 3980, -10552, "Arsenic, Lead, Zinc",
         "Mining", "Superfund",
         "CO - Historic gaming towns">>,
       <<"Captain Jack Mill", 4007, -10552, "Arsenic, Heavy Metals",
         "Mining", "Superfund",
         "CO - Boulder County watershed">>,
       <<"Midvale Slag", 4062, -11190, "Arsenic, Lead",
         "Smelting", "Superfund",
         "UT - Sharon Steel site">>,
       <<"Hinkley CA", 3493, -11718, "Chromium VI",
         "Industrial", "Contaminated",
         "CA - PG&E, famous Erin Brockovich case">>,
       <<"Chrome Plating Sites", 3395, -11825, "Chromium VI",
         "Industrial", "Various",
         "CA - Multiple LA area sites">>,
       <<"Jersey City Cr Sites", 4073, -7408, "Chromium",
         "Industrial", "Superfund",
         "NJ - Multiple chrome processing sites">>,
       <<"Tar Creek", 3698, -9485, "Lead, Zinc, Cadmium",
         "Mining", "Superfund",
         "OK - Tri-State Mining District">>,
       <<"Coeur d'Alene Basin", 4755, -11615, "Lead, Arsenic, Zinc, Cadmium",
         "Mining", "Superfund",
         "ID - Silver Valley, extensive contamination">>,
       <<"Anaconda Smelter", 4612, -11295, "Arsenic, Lead, Heavy Metals",
         "Smelting", "Superfund",
         "MT - 300+ sq miles affected">>,
       <<"Silver Bow Creek/Butte", 4602, -11252, "Arsenic, Lead, Copper, Zinc",
         "Mining", "Superfund",
         "MT - Berkeley Pit, historic mining">>,
       <<"Blackbird Mine", 4510, -11442, "Arsenic, Cobalt, Copper",
         "Mining", "Superfund",
         "ID - Lemhi County">>,
       <<"Yellow Pine Pit", 4493, -11535, "Arsenic, Antimony",
         "Mining", "Remediation Planned",
         "ID - Legacy contamination at Stibnite">>
    >>

(***************************************************************************)
(* ree_grant_map.py: the three datasets, as columns; latitude and          *)
(* longitude in ten-thousandths of a degree                                *)
(***************************************************************************)
ree_deposits ==
    [
     name |-> <<
        "Mountain Pass", "Bear Lodge", "Bokan Mountain", "Round Top",
        "Elk Creek", "Pea Ridge (Fe-REE)", "Iron Hill", "Lemhi Pass",
        "Diamond Creek", "Gallinas Mountains", "Wet Mountains", "Thor Lake",
        "Strange Lake", "Nechalacho", "Hoidas Lake", "Lofdal", "Kvanefjeld",
        "Kringlerne", "Tanbreez", "Motzfeldt", "Ilimaussaq" >>,
     state |-> <<
        "California", "Wyoming", "Alaska", "Texas", "Nebraska", "Missouri",
        "Colorado", "Idaho", "Idaho", "New Mexico", "Colorado",
        "Northwest Territories", "Quebec", "Northwest Territories",
        "Saskatchewan", "Namibia", "Greenland", "Greenland", "Greenland",
        "Greenland", "Greenland" >>,
     latitude |-> <<
        354769, 444833, 549167, 319333, 420167, 377833, 386833, 450167,
        452833, 335000, 381000, 626500, 564833, 620667, 588333, -184500,
        609667, 608000, 600333, 608333, 609667 >>,
     longitude |-> <<
        -1155358, -1044000, -1321500, -1054167, -964500, -911167, -1075167,
        -1137000, -1143000, -1067000, -1055000, -1110000, -647833, -1170833,
        -1047833, 139167, -460333, -463000, -448000, -460000, -459833 >>,
     deposit_type |-> <<
        "Carbonatite", "Alkaline complex", "Peralkaline granite",
        "Peralkaline rhyolite", "Carbonatite", "IOA with REE", "Carbonatite",
        "Vein", "Thorite vein", "Alkaline complex", "Alkaline complex",
        "Peralkaline syenite", "Peralkaline granite", "Peralkaline granite",
        "Peralkaline granite", "Carbonatite", "Multi-element",
        "Peralkaline granite", "Peralkaline syenite", "Peralkaline complex",
        "Peralkaline complex" >>,
     grade |-> <<
        "7.98% REO", "2.64% REO", "0.6% REO", "0.06% REO", "1.9% REO",
        "0.15% REO", "1.39% REO", "6.5% REO", "0.5% REO", "1.5% REO",
        "0.74% REO", "1.46% REO", "0.93% REO", "1.46% REO", "2.45% REO",
        "1.3% REO", "0.8% REO", "1.03% REO", "0.27% REO", "1.5% REO",
        "1.1% REO" >>,
     resource |-> <<
        "1.3 Mt REO", "0.66 Mt REO", "0.13 Mt REO", "0.07 Mt REO",
        "1.9 Mt REO", "1.5 Mt REO", "1.4 Mt REO", "0.7 Mt REO",
        "0.05 Mt REO", "0.3 Mt REO", "1.3 Mt REO", "0.62 Mt REO",
        "0.28 Mt REO", "0.94 Mt REO", "0.35 Mt REO", "1.0 Mt REO",
        "0.8 Mt REO", "0.5 Mt REO", "0.3 Mt REO", "1.2 Mt REO", "5.6 Mt REO" >>
    ]

coal_ash_sites ==
    [
     name |-> <<
        "Kingston Fossil Plant", "Allen Fossil Plant", "Belews Creek",
        "Dan River", "Bremo Power Station", "Chesterfield Power Station",
        "Possum Point Power Station", "Potomac River Station", "Chalk Point",
        "Brandon Shores", "H.A. Wagner", "Hatfield's Ferry", "Brunot Island",
        "Cheswick", "Mitchell", "Armstrong", "Keystone", "Conemaugh",
        "Homer City", "Shawville", "Montour", "Portland", "Morgantown",
        "Ft. Martin", "Pleasants", "Willow Island", "Kammer-Mitchell",
        "R. Paul Smith", "Mountaineer", "Gavin", "Consville", "Kyger Creek",
        "Gen. J.M. Gavin", "Cardinal", "W.H. Sammis", "Eastlake",
        "Avon Lake", "Bay Shore", "W.C. Beckjord", "Miami Fort", "Zimmer",
        "J.M. Stuart", "Killen Station", "Tanners Creek", "Clifty Creek" >>,
     state |-> <<
        "Tennessee", "Tennessee", "North Carolina", "North Carolina",
        "Virginia", "Virginia", "Virginia", "Maryland", "Maryland",
        "Maryland", "Maryland", "Pennsylvania", "Pennsylvania",
        "Pennsylvania", "Pennsylvania", "Pennsylvania", "Pennsylvania",
        "Pennsylvania", "Pennsylvania", "Pennsylvania", "Pennsylvania",
        "Pennsylvania", "West Virginia", "West Virginia", "West Virginia",
        "West Virginia", "West Virginia", "Kentucky", "West Virginia",
        "Ohio", "Ohio", "Ohio", "Ohio", "Ohio", "Ohio", "Ohio", "Ohio",
        "Ohio", "Ohio", "Ohio", "Ohio", "Ohio", "Ohio", "Indiana", "Indiana" >>,
     latitude |-> <<
        358847, 352667, 362667, 364667, 377333, 373500, 385667, 392500,
        385000, 391833, 395167, 398167, 404667, 405333, 405833, 408000,
        403833, 403333, 406500, 410000, 409333, 409167, 396333, 394667,
        393667, 392333, 398833, 388833, 389167, 389500, 400333, 388000,
        390333, 402333, 403500, 415333, 414667, 414500, 390500, 391667,
        388667, 387167, 389333, 390833, 387833 >>,
     longitude |-> <<
        -845139, -850833, -800500, -796167, -777000, -775167, -773167,
        -772000, -767167, -765333, -764167, -798667, -800000, -798000,
        -804667, -794667, -791833, -790167, -789667, -806667, -768333,
        -780167, -799667, -797833, -812000, -811500, -807333, -826167,
        -821500, -819833, -825167, -823167, -810167, -807833, -805333,
        -814333, -820000, -833333, -847667, -847333, -840833, -842667,
        -848333, -849167, -852500 >>,
     ree_ppm |-> <<
        "~500", "~450", "~400", "~400", "~350", "~350", "~350", "~300",
        "~300", "~300", "~300", "~550", "~550", "~550", "~550", "~550",
        "~550", "~550", "~550", "~550", "~550", "~550", "~600", "~600",
        "~600", "~600", "~600", "~650", "~600", "~500", "~500", "~500",
        "~500", "~500", "~500", "~500", "~500", "~500", "~500", "~500",
        "~500", "~500", "~500", "~500", "~500" >>,
     site_type |-> <<
        "Superfund/Disaster", "TVA Facility", "Duke Energy", "Disaster",
        "Dominion", "Dominion", "Dominion", "GenOn", "Mirant",
        "Constellation", "Constellation", "FirstEnergy", "GenOn", "GenOn",
        "Allegheny", "Allegheny", "GenOn", "GenOn", "GenOn", "PPL", "PPL",
        "GenOn", "FirstEnergy", "FirstEnergy", "Allegheny", "FirstEnergy",
        "Allegheny", "AEP", "AEP", "AEP", "AEP", "AEP", "AEP", "AEP",
        "FirstEnergy", "FirstEnergy", "GenOn", "FirstEnergy", "Duke Energy",
        "Duke Energy", "Duke Energy", "Dayton P&L", "Dayton P&L",
        "Duke Energy", "AEP" >>
    ]

mine_tailings ==
    [
     name |-> <<
        "Pea Ridge Tailings", "Mineville Tailings", "Bald Mountain Tailings",
        "Pacolet Tailings", "Crandon Tailings", "White Mesa Mill",
        "Grants Mineral Belt", "Gas Hills Tailings",
        "Shirley Basin Tailings", "Ray Mine Tailings", "Sierrita Tailings",
        "Mission Mine Tailings", "Bingham Canyon Tailings" >>,
     state |-> <<
        "Missouri", "New York", "South Dakota", "South Carolina",
        "Wisconsin", "Utah", "New Mexico", "Wyoming", "Wyoming", "Arizona",
        "Arizona", "Arizona", "Utah" >>,
     latitude |-> <<
        377833, 440833, 439167, 350333, 455833, 375500, 354167, 430500,
        425833, 330167, 318667, 320167, 405333 >>,
     longitude |-> <<
        -911167, -737833, -1033667, -817667, -888333, -1093500, -1075833,
        -1077500, -1061667, -1109667, -1110333, -1110833, -1121500 >>,
     ree_content |-> <<
        "1000 ppm", "800 ppm", "600 ppm", "500 ppm", "400 ppm",
        "7% (monazite)", "500 ppm", "300 ppm", "300 ppm", "200 ppm",
        "200 ppm", "200 ppm", "150 ppm" >>,
     type |-> <<
        "Iron ore tailings", "Magnetite tailings", "Magnetite tailings",
        "Titanium tailings", "Volcanogenic tailings",
        "Uranium mill (monazite)", "Uranium tailings", "Uranium tailings",
        "Uranium tailings", "Copper tailings", "Copper tailings",
        "Copper tailings", "Copper tailings" >>
    ]

(***************************************************************************)
(* State                                                                   *)
(***************************************************************************)
VARIABLES
    fpu,                \* the machine's float results (fixed from the start)
    script,             \* the program that runs
    pc,                 \* its position
    ncalls,             \* library calls made so far
    last_call,          \* the last library call: function, arguments, result
    prev_call,          \* the library call before it
    idx,                \* the index of the running loop
    dfs,                \* critical_minerals_map.py: the frames loaded so far
    printed,            \* the lines written to standard output
    frames,             \* the data frames, by name
    datasets,           \* the column dictionaries, by name
    figures,            \* the figures, by name: ranges, renderers, legend
    output,             \* the files written
    error               \* the uncaught exception, or "none"

vars == <<fpu, script, pc, ncalls, last_call, prev_call, idx, dfs, printed, frames, datasets,
          figures, output, error>>

(***************************************************************************)
(* Float operations of the projection.  Each is the IEEE operation,        *)
(* computed once for the arguments that occur: the coordinates of the      *)
(* input data and every intermediate value derived from them.              *)
(***************************************************************************)
\* a coordinate c/scale is the key <<c, scale>>
Centi(S) == {<<c, 100>> : c \in S}
Myriad(S) == {<<c, 10000>> : c \in S}

AllRows == UNION {Range(FileRows[f]) : f \in DOMAIN FileRows}

\* the <<latitude, longitude>> pairs of a dict of columns
ColumnPoints(t) == {<<t.latitude[k], t.longitude[k]>> : k \in DOMAIN t.latitude}

\* the <<latitude, longitude>> pairs a program converts, as decimal literals
Points(s) ==
    IF s = "caller" THEN Centi(CallPoints \cup Range(ArrayPoints))
    ELSE IF s = "critical_minerals_map"
    THEN Centi({<<r.Latitude, r.Longitude>> : r \in AllRows} \cup Range(cmm_bounds))
    ELSE IF s = "maps"
    THEN Centi({<<r[2], r[3]>> : r \in Range(deposits) \cup Range(contamination_sites)}
               \cup Range(maps_bounds))
    ELSE Myriad(ColumnPoints(ree_deposits) \cup ColumnPoints(coal_ash_sites)
                \cup ColumnPoints(mine_tailings))
         \cup Centi(Range(ree_bounds))

\* the map corners of a program
Corners(s) ==
    IF s = "critical_minerals_map" THEN Centi(Range(cmm_bounds))
    ELSE IF s = "maps" THEN Centi(Range(maps_bounds))
    ELSE IF s = "ree_grant_map" THEN Centi(Range(ree_bounds))
    ELSE {}

\* its latitudes, and its longitudes that are not also latitudes
LatKeys(s) == {<<p[1][1], p[2]>> : p \in Points(s)}
LonKeys(s) == {<<p[1][2], p[2]>> : p \in Points(s)} \ LatKeys(s)
CornerKeys(s) == {<<p[1][1], p[2]>> : p \in Corners(s)} \cup {<<p[1][2], p[2]>> : p \in Corners(s)}

FloatTwo == DInt(2)
FloatFour == DInt(4)

\* Earth radius in meters: constants.py, and the local r = 6378137.0 of each
\* script's own copy of the projection
EARTH_RADIUS_METERS == DInt(6378137)
cmm_r == DInt(6378137)
maps_r == DInt(6378137)
ree_r == DInt(6378137)

\* The float operations a latitude goes through, in the order the
\* projection performs them: the cell or literal is read as a double, then
\* np.radians, / 2, pi/4 +, np.tan, np.log, and r * (for x and for y).
TraceRecord(c, d, rad, half, qpi, sum, t, l) ==
    [c |-> c, d |-> d, rad |-> rad, half |-> half, pi |-> NP_PI, qpi |-> qpi,
     sum |-> sum, tan |-> t, log |-> l,
     R |-> EARTH_RADIUS_METERS, rrad |-> DMul(EARTH_RADIUS_METERS, rad),
     rlog |-> DMul(EARTH_RADIUS_METERS, l)]
TraceLog(c, d, rad, half, qpi, sum, t) == TraceRecord(c, d, rad, half, qpi, sum, t, LogExact(t))
TraceTan(c, d, rad, half, qpi, sum) == TraceLog(c, d, rad, half, qpi, sum, TanExact(sum))
TraceAdd(c, d, rad, half, qpi) == TraceTan(c, d, rad, half, qpi, DAdd(qpi, half))
\* (/ 2 and / 4 are divisions by a power of two: a shift of the magnitude)
TraceDiv(c, d, rad) == TraceAdd(c, d, rad, DDivPow2(rad, 1), DDivPow2(NP_PI, 2))
TraceRadians(c, d) == TraceDiv(c, d, DMul(d, DEG2RAD))
Trace(c) == TraceRadians(c, DDecimal(c[1], c[2]))

\* a longitude: read as a double, np.radians, r *
LonRecord(c, d, rad) == [c |-> c, d |-> d, rad |-> rad, rrad |-> DMul(EARTH_RADIUS_METERS, rad)]
LonRadians(c, d) == LonRecord(c, d, DMul(d, DEG2RAD))
LonTrace(c) == LonRadians(c, DDecimal(c[1], c[2]))

\* the function with graph G, a set of <<argument, value>> pairs
FnOf(G) == Table([k \in {g[1] : g \in G} |-> (CHOOSE g \in G : g[1] = k)[2]])

\* the float constants of the scripts: the legend offsets 1e7, 2e7, the range
\* margins 500000 and 200000, the legend spacing 5e5 and the loop indices
\* it is multiplied with
LegendOffsets == {DInt(10000000), DInt(20000000), DInt(500000), DInt(200000)}
LegendSpacing == DInt(500000)
LegendIndices == {DInt(n) : n \in 0..8}

\* the projected map corners: x and y of the traces of the corner keys B
CornerValues(T, L, B) ==
    {t.rrad : t \in {u \in T \cup L : u.c \in B}} \cup {t.rlog : t \in {u \in T : u.c \in B}}

\* the float unit: every result of the traces T and L, by operation and
\* arguments, and the corner arithmetic of the corner values V with the
\* offsets K and the spacing products P
FloatUnit(T, L, any, V, K, P) ==
    [parse |-> FnOf({<<t.c, t.d>> : t \in T} \cup {<<t.c, t.d>> : t \in L}),
     radians |-> FnOf({<<t.d, t.rad>> : t \in T} \cup {<<t.d, t.rad>> : t \in L}),
     div |-> FnOf({<<<<t.rad, any.two>>, t.half>> : t \in T}
                  \cup {<<<<any.pi, any.four>>, any.qpi>>}),
     add |-> FnOf({<<<<t.qpi, t.half>>, t.sum>> : t \in T}
                  \cup {<<<<v, k>>, DAdd(v, k)>> : v \in V, k \in K \cup {p[2] : p \in P}}),
     sub |-> FnOf({<<<<v, k>>, DSub(v, k)>> : v \in V, k \in K}),
     tan |-> FnOf({<<t.sum, t.tan>> : t \in T}),
     log |-> FnOf({<<t.tan, t.log>> : t \in T}),
     mul |-> FnOf({<<<<any.R, t.rad>>, t.rrad>> : t \in T}
                  \cup {<<<<any.R, t.log>>, t.rlog>> : t \in T}
                  \cup {<<<<any.R, t.rad>>, t.rrad>> : t \in L}
                  \cup P),
     pi |-> any.pi, two |-> any.two, four |-> any.four,
     R |-> any.R, cmm_r |-> any.cmm_r, maps_r |-> any.maps_r, ree_r |-> any.ree_r]

FloatCorners(T, L, any, B) ==
    FloatUnit(T, L, any, CornerValues(T, L, B), LegendOffsets,
              {<<<<n, LegendSpacing>>, DMul(n, LegendSpacing)>> : n \in LegendIndices})

Traces(K) == {Trace(c) : c \in K}
LonTraces(K) == {LonTrace(c) : c \in K}

FloatConstants ==
    [pi |-> NP_PI, qpi |-> DDivPow2(NP_PI, 2), two |-> FloatTwo, four |-> FloatFour,
     R |-> EARTH_RADIUS_METERS, cmm_r |-> cmm_r, maps_r |-> maps_r, ree_r |-> ree_r]

\* (an operator of the keys, so that the tables are computed once, when the
\* machine starts)
FloatTables(lats, lons, corners) ==
    FloatCorners(Traces(lats), LonTraces(lons), FloatConstants, corners)

\* the double a decimal literal or CSV cell c/100 is read as, and a literal
\* c/10000
ParseFloat(c) == fpu.parse[<<c, 100>>]
ParseFloat4(c) == fpu.parse[<<c, 10000>>]

\* a / b, a + b, a * b in double
FloatDiv(a, b) == fpu.div[<<a, b>>]
FloatSub(a, b) == fpu.sub[<<a, b>>]
FloatAdd(a, b) == fpu.add[<<a, b>>]
FloatMul(a, b) == fpu.mul[<<a, b>>]

\* np.radians, np.tan, np.log of one double
Radians(d) == fpu.radians[d]
Tan(z) == fpu.tan[z]
Log(t) == fpu.log[t]

(***************************************************************************)
(* numpy values: a scalar double or a one-dimensional array of doubles.    *)
(* A ufunc applies elementwise; a binary ufunc broadcasts a scalar or a    *)
(* one-element array against an array and raises ValueError on two arrays  *)
(* of different lengths.                                                   *)
(***************************************************************************)
Scalar(d) == [shape |-> "scalar", v |-> d]
NDArray(a) == [shape |-> "array", v |-> Tup(a)]
ValueError == [shape |-> "error", v |-> "operands could not be broadcast together"]

\* np.array(list of float cells)
np_array(l) == NDArray(l)

UFunc1(F(_), a) ==
    IF a.shape = "error" THEN a
    ELSE IF a.shape = "scalar" THEN Scalar(F(a.v))
    ELSE NDArray([i \in 1..Len(a.v) |-> F(a.v[i])])

UFunc2(F(_, _), a, b) ==
    IF a.shape = "error" THEN a
    ELSE IF b.shape = "error" THEN b
    ELSE IF a.shape = "scalar" /\ b.shape = "scalar" THEN Scalar(F(a.v, b.v))
    ELSE IF a.shape = "scalar" THEN NDArray([i \in 1..Len(b.v) |-> F(a.v, b.v[i])])
    ELSE IF b.shape = "scalar" THEN NDArray([i \in 1..Len(a.v) |-> F(a.v[i], b.v)])
    ELSE IF Len(a.v) = Len(b.v) THEN NDArray([i \in 1..Len(a.v) |-> F(a.v[i], b.v[i])])
    ELSE IF Len(a.v) = 1 THEN NDArray([i \in 1..Len(b.v) |-> F(a.v[1], b.v[i])])
    ELSE IF Len(b.v) = 1 THEN NDArray([i \in 1..Len(a.v) |-> F(a.v[i], b.v[1])])
    ELSE ValueError

np_radians(a) == UFunc1(Radians, a)
np_tan(a) == UFunc1(Tan, a)
np_log(a) == UFunc1(Log, a)
np_multiply(a, b) == UFunc2(FloatMul, a, b)
np_divide(a, b) == UFunc2(FloatDiv, a, b)
np_add(a, b) == UFunc2(FloatAdd, a, b)

(***************************************************************************)
(* The projection: the library function of plotting_utils.py and the       *)
(* copies critical_minerals_map.py and maps.py define for themselves       *)
(***************************************************************************)
\* (a variant for checking C1: x is taken from the latitude)
lat_lon_to_web_mercator_x_of_lat(lat, lon) ==
    LET lat_rad == np_radians(lat)
        x == np_multiply(Scalar(fpu.R), lat_rad)
        y == np_multiply(Scalar(fpu.R),
                 np_log(np_tan(np_add(Scalar(FloatDiv(fpu.pi, fpu.four)),
                                      np_divide(lat_rad, Scalar(fpu.two))))))
    IN  <<x, y>>

\* (a variant for checking C2: y is R times the longitude in radians)
lat_lon_to_web_mercator_y_of_lon(lat, lon) ==
    LET lon_rad == np_radians(lon)
        x == np_multiply(Scalar(fpu.R), lon_rad)
    IN  <<x, x>>

\* (a variant for checking C3 and C5: the two coordinates exchanged)
lat_lon_to_web_mercator_swapped(lat, lon) ==
    LET lat_rad == np_radians(lat)
        lon_rad == np_radians(lon)
        x == np_multiply(Scalar(fpu.R), lon_rad)
        y == np_multiply(Scalar(fpu.R),
                 np_log(np_tan(np_add(Scalar(FloatDiv(fpu.pi, fpu.four)),
                                      np_divide(lat_rad, Scalar(fpu.two))))))
    IN  <<y, x>>

lat_lon_to_web_mercator(lat, lon) ==
    LET lat_rad == np_radians(lat)
        lon_rad == np_radians(lon)
        x == np_multiply(Scalar(fpu.R), lon_rad)
        y == np_multiply(Scalar(fpu.R),
                 np_log(np_tan(np_add(Scalar(FloatDiv(fpu.pi, fpu.four)),
                                      np_divide(lat_rad, Scalar(fpu.two))))))
    IN  <<x, y>>

cmm_lat_lon_to_web_mercator(lat, lon) ==
    LET r == fpu.cmm_r
        lat_rad == np_radians(lat)
        lon_rad == np_radians(lon)
        x == np_multiply(Scalar(r), lon_rad)
        y == np_multiply(Scalar(r),
                 np_log(np_tan(np_add(Scalar(FloatDiv(fpu.pi, fpu.four)),
                                      np_divide(lat_rad, Scalar(fpu.two))))))
    IN  <<x, y>>

maps_lat_lon_to_web_mercator(lat, lon) ==
    LET r == fpu.maps_r
        lat_rad == np_radians(lat)
        lon_rad == np_radians(lon)
        x == np_multiply(Scalar(r), lon_rad)
        y == np_multiply(Scalar(r),
                 np_log(np_tan(np_add(Scalar(FloatDiv(fpu.pi, fpu.four)),
                                      np_divide(lat_rad, Scalar(fpu.two))))))
    IN  <<x, y>>

ree_lat_lon_to_web_mercator(lat, lon) ==
    LET r == fpu.ree_r
        lat_rad == np_radians(lat)
        lon_rad == np_radians(lon)
        x == np_multiply(Scalar(r), lon_rad)
        y == np_multiply(Scalar(r),
                 np_log(np_tan(np_add(Scalar(FloatDiv(fpu.pi, fpu.four)),
                                      np_divide(lat_rad, Scalar(fpu.two))))))
    IN  <<x, y>>

(***************************************************************************)
(* Python strings, lists and dicts                                         *)
(***************************************************************************)
\* sub in s
Contains(s, sub) ==
    \E k \in 1..(Len(s) - Len(sub) + 1) : SubSeq(s, k, k + Len(sub) - 1) = sub

\* s.split(sep)[0] for a one-character sep: s up to its first sep
SplitFirst(s, sep) ==
    LET at == {k \in 1..Len(s) : SubSeq(s, k, k) = sep}
    IN  IF at = {} THEN s
        ELSE SubSeq(s, 1, (CHOOSE k \in at : \A j \in at : k <= j) - 1)

Whitespace == {" ", "\t", "\n", "\r"}

\* s.strip()
Strip(s) ==
    LET ink == {k \in 1..Len(s) : SubSeq(s, k, k) \notin Whitespace}
    IN  IF ink = {} THEN ""
        ELSE SubSeq(s, CHOOSE k \in ink : \A j \in ink : k <= j,
                       CHOOSE k \in ink : \A j \in ink : k >= j)

\* s.split()[0]: the first run of non-whitespace characters of s (s has one)
FirstWord(s) ==
    LET t  == Strip(s)
        ws == {k \in 1..Len(t) : SubSeq(t, k, k) \in Whitespace}
    IN  IF ws = {} THEN t
        ELSE SubSeq(t, 1, (CHOOSE k \in ws : \A j \in ws : k <= j) - 1)

\* s.replace(old, ""): s without the occurrences of old, found left to right
RECURSIVE Remove(_, _)
Remove(s, old) ==
    IF Len(s) < Len(old) THEN s
    ELSE IF SubSeq(s, 1, Len(old)) = old THEN Remove(SubSeq(s, Len(old) + 1, Len(s)), old)
    ELSE SubSeq(s, 1, 1) \o Remove(SubSeq(s, 2, Len(s)), old)

Digits == <<"0", "1", "2", "3", "4", "5", "6", "7", "8", "9">>
IsDigits(s) == s # "" /\ \A k \in 1..Len(s) : SubSeq(s, k, k) \in Range(Digits)
DigitValue(c) == (CHOOSE d \in DOMAIN Digits : Digits[d] = c) - 1

\* int(s) for a string of decimal digits; anything else raises ValueError
RECURSIVE IntOfDigits(_)
IntOfDigits(s) ==
    IF s = "" THEN 0
    ELSE 10 * IntOfDigits(SubSeq(s, 1, Len(s) - 1)) + DigitValue(SubSeq(s, Len(s), Len(s)))
IntRaises(s) == ~IsDigits(Strip(s))
int(s) == IntOfDigits(Strip(s))

\* s[:n]
Prefix(s, n) == SubSeq(s, 1, IF Len(s) < n THEN Len(s) ELSE n)

\* a dict literal is the sequence of its <<key, value>> items
Keys(d) == {d[k][1] : k \in DOMAIN d}
\* key in d, d[key] for a key of d, and d.get(key, default)
In(key, d) == key \in Keys(d)
Item(d, key) == d[CHOOSE k \in DOMAIN d : d[k][1] = key][2]
\* (a variant for checking C6: d.get(key), which yields None for a missing key)
GetNone(d, key, default) == IF In(key, d) THEN Item(d, key) ELSE "None"

\* (a variant for checking C9: the first key that is a prefix of the label)
GetByPrefix(d, key, default) ==
    LET hits == {k \in DOMAIN d : Prefix(key, Len(d[k][1])) = d[k][1]}
    IN  IF hits = {} THEN default ELSE d[CHOOSE k \in hits : \A j \in hits : k <= j][2]

Get(d, key, default) == IF In(key, d) THEN Item(d, key) ELSE default

\* a dict of columns with column k set to the list v
Put(d, k, v) == [c \in DOMAIN d \cup {k} |-> IF c = k THEN v ELSE d[c]]
\* the dict of columns with list l appended to, one value per column of row
AppendRow(d, row) == [c \in DOMAIN d |-> Append(d[c], row[c])]

(***************************************************************************)
(* Style tables                                                            *)
(***************************************************************************)
\* critical_minerals_map.py
cmm_element_colors ==
    << <<"Tungsten", "#8e44ad">>, <<"Tungsten/Antimony", "#9b59b6">>,
       <<"Tungsten/Molybdenum", "#6c3483">>, <<"Antimony", "#e74c3c">>,
       <<"Graphite", "#34495e">>, <<"Chromium/PGM", "#16a085">>,
       <<"Manganese", "#1abc9c">>, <<"Gallium/Germanium", "#f39c12">>,
       <<"Niobium/REE", "#d35400">>, <<"Scandium/REE", "#e67e22">>,
       <<"Tantalum", "#c0392b">>, <<"Tin/Tungsten", "#8e44ad">>,
       <<"Tin", "#95a5a6">>, <<"Tantalum/Tin", "#7f8c8d">>,
       <<"Fluorine", "#3498db">>, <<"Fluorine/Beryllium", "#2980b9">>,
       <<"As/Pb/Zn", "#e74c3c">>, <<"As/Cu", "#c0392b">>,
       <<"As/Cu/Zn", "#a93226">>, <<"Pb/Zn", "#922b21">> >>

cmm_status_sizes ==
    << <<"Operating", 16>>, <<"Development", 14>>, <<"Exploration", 12>>,
       <<"Historic", 10>>, <<"Remediation", 18>> >>

\* maps.py
maps_element_colors ==
    << <<"Tungsten", "#E63946">>, <<"Antimony", "#F4A261">>, <<"Graphite", "#2A2A2A">>,
       <<"Chromium", "#457B9D">>, <<"Manganese", "#9B2335">>, <<"Gallium", "#7209B7">>,
       <<"Germanium", "#3A0CA3">>, <<"Niobium", "#4361EE">>, <<"Tantalum", "#4CC9F0">>,
       <<"Tin", "#90BE6D">>, <<"Scandium", "#F72585">>, <<"Yttrium", "#B5179E">>,
       <<"Magnesium", "#06D6A0">>, <<"Fluorine", "#FFD166">>, <<"Bismuth", "#118AB2">>,
       <<"Arsenic", "#DC2F02">>, <<"Multi-element", "#6C757D">> >>

status_markers ==
    << <<"Operating", "circle">>, <<"Development", "diamond">>,
       <<"Exploration", "triangle">>, <<"Historic", "square">>, <<"Resource", "hex">> >>

(***************************************************************************)
(* plotting_utils.plot_mines_by_deposit_type.  A frame is its column names *)
(* and its rows; a plot is the list of its renderers.                      *)
(***************************************************************************)
\* Series.unique(): the values in order of first appearance; every NaN of
\* the column is the one value NaN
RECURSIVE Unique(_)
Unique(l) ==
    IF l = <<>> THEN <<>>
    ELSE LET u == Unique(SubSeq(l, 1, Len(l) - 1))
         IN  IF l[Len(l)] \in Range(u) THEN u ELSE Append(u, l[Len(l)])

Column(rows, c) == [k \in 1..Len(rows) |-> rows[k][c]]

\* (a variant for checking C25: a row with a missing value passes neither
\* mask)
RECURSIVE Where_dropna(_, _, _, _, _)
Where_dropna(rows, c, v, eq, n) ==
    IF n = 0 THEN <<>>
    ELSE LET rest == Where_dropna(rows, c, v, eq, n - 1)
         IN  IF rows[n][c] # NaN /\ (rows[n][c] = v) = eq THEN Append(rest, rows[n]) ELSE rest

\* the first n rows of a list that pass the mask (c == v, or c != v), in
\* order: rows[mask]; NaN equals nothing
RECURSIVE Where(_, _, _, _, _)
Where(rows, c, v, eq, n) ==
    IF n = 0 THEN <<>>
    ELSE LET rest == Where(rows, c, v, eq, n - 1)
             same == rows[n][c] # NaN /\ rows[n][c] = v
         IN  IF same = eq THEN Append(rest, rows[n]) ELSE rest

WhereEq(rows, c, v) == Where(rows, c, v, TRUE, Len(rows))
WhereNe(rows, c, v) == Where(rows, c, v, FALSE, Len(rows))

\* constants.py: the element names
ELEMENT_NAMES ==
    << <<"CE", "Cerium">>, <<"LA", "Lanthanum">>, <<"ND", "Neodymium">>, <<"Y", "Yttrium">>,
       <<"PR", "Praseodymium">>, <<"DY", "Dysprosium">>, <<"SM", "Samarium">>,
       <<"GD", "Gadolinium">>, <<"ER", "Erbium">>, <<"EU", "Europium">>, <<"CU", "Copper">>,
       <<"AU", "Gold">>, <<"MO", "Molybdenum">>, <<"AG", "Silver">>, <<"AS", "Arsenic">>,
       <<"TE", "Tellurium">>, <<"SE", "Selenium">>, <<"RE", "Rhenium">> >>

\* (a variant for checking C23: a code without a name is labelled 'Unknown')
element_tooltip_unknown(elem) ==
    LET elem_code == Remove(elem, "_PPM")
        label == IF elem_code = "REO" THEN "Total REE Oxides (REO)"
                 ELSE Get(ELEMENT_NAMES, elem_code, "Unknown") \o " (" \o elem_code \o ")"
    IN  <<label, "@{" \o elem \o "}{0.0} ppm">>

\* the body of the loop of create_element_tooltips: the entry of one element
element_tooltip(elem) ==
    LET elem_code == Remove(elem, "_PPM")
        label == IF elem_code = "REO" THEN "Total REE Oxides (REO)"
                 ELSE Get(ELEMENT_NAMES, elem_code, elem_code) \o " (" \o elem_code \o ")"
    IN  <<label, "@{" \o elem \o "}{0.0} ppm">>

\* the entries of the first n elements, in order
RECURSIVE element_tooltips(_, _)
element_tooltips(elements_list, n) ==
    IF n = 0 THEN <<>>
    ELSE Append(element_tooltips(elements_list, n - 1), element_tooltip(elements_list[n]))

create_element_tooltips(elements_list) ==
    << <<"Mine", "@{Mine Name}">>, <<"State", "@State">>,
       <<"Deposit Type", "@{Deposit Type}">>,
       <<"Primary Commodity", "@{Main Product Commodity}">>, <<"", "">> >>
    \o element_tooltips(elements_list, Len(elements_list))
    \o << <<"", "">>, <<"Coordinate Source", "@{Coordinate_Source}">>,
          <<"Verification", "@{Verification_Status}">> >>

\* the element columns the function is called with: the total, two codes
\* that have a name (one of them given without the suffix) and one that has
\* none
ElementColumns == <<"REO_PPM", "CE_PPM", "Y", "ZZ_PPM">>

\* constants.py: deposit type names and their sheet names
DEPOSIT_TYPE_TO_SHEET ==
    << <<"Reduced Intrusion Related Gold", "RIRG">>,
       <<"Carlin-Type", "Carlin">>,
       <<"Alkalic Epithermal Gold", "Alkalic">>,
       <<"LS Epithermal Gold Silver", "LSepi">>,
       <<"Mesozonal Orogenic Gold", "OrogenicAu">>,
       <<"Orogenic Silver Lead Zinc Copper Antimony", "OrogenicAg">>,
       <<"Skarn Gold", "Skarn">>,
       <<"Climax-Type Porphyry Molybendenum", "PorphyryMo">>,
       <<"Porphyry Copper Gold and Porphyry Copper Molybendum", "PorphyryCu">>,
       <<"Sed Hosted Cu", "SedCu">>,
       <<"Ultramafic intrusion/layered intrusion/conduit nickle copper PGE", "MagmaticNi">>,
       <<"Bimodal Felsic Volcanogenic Massive Sulfide", "BimodalAg">>,
       <<"Mississippi Valley Type Zn-Pb", "MVT">>,
       <<"Siliclastic Cabonate Zn-Pb", "SEDEX">>,
       <<"Carbonatite", "REE">>,
       <<"Ultramafic Layered Intrusion PGE", "UMPGE">>,
       <<"Superior-type banded iron formation", "BIF">> >>

\* (a variant for checking C24: names are cut after 10 characters)
legend_label_10(dep_type) ==
    Prefix(dep_type, 10) \o (IF Len(dep_type) > 10 THEN "..." ELSE "")

\* str(dep_type)[:35] + ('...' if len(str(dep_type)) > 35 else '')
legend_label(dep_type) ==
    Prefix(dep_type, 35) \o (IF Len(dep_type) > 35 THEN "..." ELSE "")

\* (a variant for checking C18: a missing deposit type is not skipped)
plot_mines_step_nan(s, data_df, size_col, default_size, dep_type) ==
    LET subset == [columns |-> data_df.columns,
                   rows |-> WhereEq(data_df.rows, "Deposit Type", dep_type)]
        size == IF size_col \in Range(subset.columns)
                THEN [field |-> size_col] ELSE [value |-> default_size]
        renderer == [source |-> subset.rows, size |-> size, color |-> "color",
                     legend_label |-> legend_label(dep_type)]
    IN  [plot |-> Append(s.plot, renderer),
         scatter_renderers |-> Append(s.scatter_renderers, <<dep_type, Len(s.plot) + 1>>)]

\* one pass of the loop body for dep_type, from state s = [plot, scatter_renderers]
plot_mines_step(s, data_df, size_col, default_size, dep_type) ==
    IF dep_type = NaN THEN s
    ELSE LET subset == [columns |-> data_df.columns,
                        rows |-> WhereEq(data_df.rows, "Deposit Type", dep_type)]
             size == IF size_col \in Range(subset.columns)
                     THEN [field |-> size_col] ELSE [value |-> default_size]
             renderer == [source |-> subset.rows, size |-> size, color |-> "color",
                          legend_label |-> legend_label(dep_type)]
         IN  [plot |-> Append(s.plot, renderer),
              scatter_renderers |->
                  IF In(dep_type, s.scatter_renderers)
                  THEN [k \in DOMAIN s.scatter_renderers |->
                           IF s.scatter_renderers[k][1] = dep_type
                           THEN <<dep_type, Len(s.plot) + 1>> ELSE s.scatter_renderers[k]]
                  ELSE Append(s.scatter_renderers, <<dep_type, Len(s.plot) + 1>>)]

RECURSIVE plot_mines_loop(_, _, _, _, _)
plot_mines_loop(plot, data_df, size_col, default_size, types) ==
    IF types = <<>> THEN [plot |-> plot, scatter_renderers |-> <<>>]
    ELSE plot_mines_step(plot_mines_loop(plot, data_df, size_col, default_size,
                                         SubSeq(types, 1, Len(types) - 1)),
                         data_df, size_col, default_size, types[Len(types)])

\* the plot afterwards and the returned dict (type -> index of its renderer)
plot_mines_by_deposit_type(plot, data_df, size_col, default_size) ==
    plot_mines_loop(plot, data_df, size_col, default_size,
                    Unique(Column(data_df.rows, "Deposit Type")))

\* the frames the function is called with: mines with two deposit types, a
\* missing type and a repeated type, with and without a size column
MineRow(name, type, size) ==
    [name |-> name, x |-> 0, y |-> 0, color |-> "#000000", size |-> size]
    @@ ("Deposit Type" :> type)
MineRows ==
    << MineRow("Mountain Pass", "Carbonatite", 20), MineRow("Twin Creeks", "Carlin-Type", 12),
       MineRow("Unnamed", NaN, 8), MineRow("Bear Lodge", "Carbonatite", 16),
       MineRow("Bingham", "Porphyry Copper Gold and Porphyry Copper Molybendum", 24) >>

(***************************************************************************)
(* The programs: a caller of the library functions, and the three scripts  *)
(***************************************************************************)
MaxCalls == 2
MaxLen == 2

Scripts == {"caller", "critical_minerals_map", "maps", "ree_grant_map"}
Projections == {"plotting_utils", "critical_minerals_map", "maps", "ree_grant_map"}

\* (a variant for checking C5: the result depends on the calls made before)
ProjectByCount(fn, lat, lon) ==
    IF ncalls = 0 THEN lat_lon_to_web_mercator(lat, lon)
    ELSE lat_lon_to_web_mercator_swapped(lat, lon)

Project(fn, lat, lon) ==
    IF fn = "plotting_utils" THEN lat_lon_to_web_mercator(lat, lon)
    ELSE IF fn = "critical_minerals_map" THEN cmm_lat_lon_to_web_mercator(lat, lon)
    ELSE IF fn = "maps" THEN maps_lat_lon_to_web_mercator(lat, lon)
    ELSE ree_lat_lon_to_web_mercator(lat, lon)

\* the sequences over S of length at most n
SeqsUpTo(S, n) == UNION {[1..m -> S] : m \in 0..n}

NoCall == [fn |-> "none", args |-> <<>>, out |-> <<>>]
Empty == <<>>

Init ==
    /\ script \in Scripts
    /\ fpu = FloatTables(LatKeys(script), LonKeys(script), CornerKeys(script))
    /\ pc = "start"
    /\ ncalls = 0
    /\ last_call = NoCall
    /\ prev_call = NoCall
    /\ idx = 0
    /\ dfs = <<>>
    /\ printed = <<>>
    /\ frames = Empty
    /\ datasets = Empty
    /\ figures = Empty
    /\ output = [filename |-> "", saved |-> <<>>]
    /\ error = "none"

scriptVars == <<idx, dfs, printed, frames, datasets, figures, output, error>>

(***************************************************************************)
(* Direct calls of the library functions                                   *)
(***************************************************************************)
\* the projection of a scalar point
CallScalar ==
    /\ script = "caller" /\ ncalls < MaxCalls
    /\ \E fn \in Projections, p \in CallPoints :
          LET lat == Scalar(ParseFloat(p[1]))
              lon == Scalar(ParseFloat(p[2]))
          IN  last_call' = [fn |-> fn, args |-> <<lat, lon>>, out |-> Project(fn, lat, lon)]
    /\ ncalls' = ncalls + 1
    /\ prev_call' = last_call
    /\ pc' = "called"
    /\ UNCHANGED <<fpu, script, scriptVars>>

\* the projection of two arrays of equal length
CallArrays ==
    /\ script = "caller" /\ ncalls < MaxCalls
    /\ \E fn \in Projections, ix \in SeqsUpTo(DOMAIN ArrayPoints, MaxLen) :
          LET lat == np_array([k \in 1..Len(ix) |-> ParseFloat(ArrayPoints[ix[k]][1])])
              lon == np_array([k \in 1..Len(ix) |-> ParseFloat(ArrayPoints[ix[k]][2])])
          IN  last_call' = [fn |-> fn, args |-> <<lat, lon>>, out |-> Project(fn, lat, lon)]
    /\ ncalls' = ncalls + 1
    /\ prev_call' = last_call
    /\ pc' = "called"
    /\ UNCHANGED <<fpu, script, scriptVars>>

\* plot_mines_by_deposit_type on an empty plot and a frame of some of the
\* mines, with or without a size column
CallPlotMines ==
    /\ script = "caller" /\ ncalls < MaxCalls
    /\ \E ix \in SeqsUpTo(DOMAIN MineRows, MaxLen), has_size \in BOOLEAN :
          LET cols == <<"name", "Deposit Type", "x", "y", "color">>
                      \o (IF has_size THEN <<"size">> ELSE <<>>)
              df   == [columns |-> cols,
                       rows |-> [k \in 1..Len(ix) |->
                                    [c \in Range(cols) |-> MineRows[ix[k]][c]]]]
          IN  last_call' = [fn |-> "plot_mines_by_deposit_type",
                            args |-> <<<<>>, df, "size", 16>>,
                            out |-> plot_mines_by_deposit_type(<<>>, df, "size", 16)]
    /\ ncalls' = ncalls + 1
    /\ prev_call' = last_call
    /\ pc' = "called"
    /\ UNCHANGED <<fpu, script, scriptVars>>

\* plot_mines_by_deposit_type on an empty plot and a frame with one mine of
\* each deposit type of DEPOSIT_TYPE_TO_SHEET, with or without a size column
CallPlotSheetTypes ==
    /\ script = "caller" /\ ncalls < MaxCalls
    /\ \E has_size \in BOOLEAN :
          LET cols == <<"name", "Deposit Type", "x", "y", "color">>
                      \o (IF has_size THEN <<"size">> ELSE <<>>)
              df   == [columns |-> cols,
                       rows |-> [k \in DOMAIN DEPOSIT_TYPE_TO_SHEET |->
                                    [c \in Range(cols) |->
                                        MineRow(DEPOSIT_TYPE_TO_SHEET[k][2],
                                                DEPOSIT_TYPE_TO_SHEET[k][1], 16)[c]]]]
          IN  last_call' = [fn |-> "plot_mines_by_deposit_type",
                            args |-> <<<<>>, df, "size", 16>>,
                            out |-> plot_mines_by_deposit_type(<<>>, df, "size", 16)]
    /\ ncalls' = ncalls + 1
    /\ prev_call' = last_call
    /\ pc' = "called"
    /\ UNCHANGED <<fpu, script, scriptVars>>

\* create_element_tooltips on a list of some of the element columns, repeats
\* included
CallTooltips ==
    /\ script = "caller" /\ ncalls < MaxCalls
    /\ \E ix \in SeqsUpTo(DOMAIN ElementColumns, MaxLen) :
          LET elements_list == [k \in 1..Len(ix) |-> ElementColumns[ix[k]]]
          IN  last_call' = [fn |-> "create_element_tooltips",
                            args |-> <<elements_list>>,
                            out |-> create_element_tooltips(elements_list)]
    /\ ncalls' = ncalls + 1
    /\ prev_call' = last_call
    /\ pc' = "called"
    /\ UNCHANGED <<fpu, script, scriptVars>>

(***************************************************************************)
(* critical_minerals_map.py                                                *)
(***************************************************************************)
\* pd.read_csv: the rows of the file, Latitude and Longitude read as floats
read_csv(f) ==
    [k \in 1..Len(FileRows[f]) |->
        [FileRows[f][k] EXCEPT !.Latitude = ParseFloat(@), !.Longitude = ParseFloat(@)]]

\* the first n frames of a list, one after the other
RECURSIVE concat_to(_, _)
concat_to(l, n) == IF n = 0 THEN <<>> ELSE concat_to(l, n - 1) \o l[n]

\* (a variant for checking C10: only the last frame is kept)
concat_last(l) == l[Len(l)]

\* pd.concat(l, ignore_index=True) of a non-empty list of frames
concat(l) == concat_to(l, Len(l))

\* the column dictionary built from a frame
ColumnDict(df) ==
    [name |-> Column(df, "Name"), latitude |-> Column(df, "Latitude"),
     longitude |-> Column(df, "Longitude"), element |-> Column(df, "Element"),
     type |-> Column(df, "Deposit_Type"), status |-> Column(df, "Status"),
     notes |-> Column(df, "Notes")]

\* (a variant for checking C15: every record is given the coordinates of the
\* first record)
cmm_convert_first_row(d) ==
    LET xy == cmm_lat_lon_to_web_mercator(np_array(d.latitude), np_array(d.longitude))
        x  == [k \in 1..Len(xy[1].v) |-> xy[1].v[1]]
        y  == [k \in 1..Len(xy[2].v) |-> xy[2].v[1]]
    IN  Put(Put(d, "x", [xy[1] EXCEPT !.v = x]), "y", [xy[2] EXCEPT !.v = y])

\* (a variant for checking C14: records outside -90 < lat < 90 are rejected
\* before the conversion)
cmm_convert_validated(d) ==
    LET ok == {k \in 1..Len(d.latitude) : DLess(DAbs(d.latitude[k]), DInt(90))}
        RECURSIVE Keep(_, _)
        Keep(l, n) == IF n = 0 THEN <<>>
                      ELSE IF n \in ok THEN Append(Keep(l, n - 1), l[n]) ELSE Keep(l, n - 1)
        e  == [c \in DOMAIN d |-> Keep(d[c], Len(d[c]))]
        xy == cmm_lat_lon_to_web_mercator(np_array(e.latitude), np_array(e.longitude))
    IN  Put(Put(e, "x", xy[1]), "y", xy[2])

\* d with the columns x and y of the projection of its latitude and longitude
cmm_convert(d) ==
    LET xy == cmm_lat_lon_to_web_mercator(np_array(d.latitude), np_array(d.longitude))
    IN  Put(Put(d, "x", xy[1]), "y", xy[2])

\* (a variant for checking C7: the first record is styled by its position)
GetAllFirstDefault(table, l, default) ==
    [k \in 1..Len(l) |-> IF k = 1 THEN default ELSE Get(table, l[k], default)]

\* [table.get(v, default) for v in l]
GetAll(table, l, default) == [k \in 1..Len(l) |-> Get(table, l[k], default)]

\* p.scatter('x', 'y', source=source, size='size', color='color'), without
\* and with a legend_label
Scatter(source) ==
    [source |-> source, x |-> "x", y |-> "y", size |-> "size", color |-> "color"]
LabelledScatter(source, label) ==
    [source |-> source, x |-> "x", y |-> "y", size |-> "size", color |-> "color",
     legend_label |-> label]

\* figure(x_range=(x0, x1), y_range=(y0, y1)) with its renderers and the
\* items of its hand-built legend
Figure(x0, x1, y0, y1, renderers) ==
    [x_range |-> <<x0, x1>>, y_range |-> <<y0, y1>>, renderers |-> renderers,
     legend |-> <<>>]

\* (a variant for checking C16: the point of a legend entry is put at the
\* lower left corner of the figure)
RECURSIVE cmm_legend_onscreen(_, _, _, _, _, _, _)
cmm_legend_onscreen(p, labels, colors, size, off_x, off_y, n) ==
    IF n = 0 THEN p
    ELSE LET q  == cmm_legend_onscreen(p, labels, colors, size, off_x, off_y, n - 1)
             ds == [x |-> <<p.x_range[1]>>,
                    y |-> <<FloatAdd(off_y, FloatMul(DInt(n - 1), LegendSpacing))>>]
             sc == [source |-> ds, x |-> "x", y |-> "y", fill_color |-> colors[n],
                    size |-> size]
         IN  [q EXCEPT !.renderers = Append(@, sc),
                       !.legend = Append(@, [label |-> labels[n],
                                             renderers |-> <<Len(q.renderers) + 1>>])]

\* the legend loop: for i, (label, color) in enumerate(zip(labels, colors)), one
\* scatter of the single point (off_x, off_y + i*5e5) and its legend item
RECURSIVE cmm_legend(_, _, _, _, _, _, _)
cmm_legend(p, labels, colors, size, off_x, off_y, n) ==
    IF n = 0 THEN p
    ELSE LET q  == cmm_legend(p, labels, colors, size, off_x, off_y, n - 1)
             ds == [x |-> <<off_x>>,
                    y |-> <<FloatAdd(off_y, FloatMul(DInt(n - 1), LegendSpacing))>>]
             sc == [source |-> ds, x |-> "x", y |-> "y", fill_color |-> colors[n],
                    size |-> size]
         IN  [q EXCEPT !.renderers = Append(@, sc),
                       !.legend = Append(@, [label |-> labels[n],
                                             renderers |-> <<Len(q.renderers) + 1>>])]

unique_elements ==
    <<"Tungsten", "Antimony", "Graphite", "Chromium/PGM", "Manganese", "Gallium/Germanium",
      "Tantalum/Tin", "REE", "Fluorine">>
legend_colors ==
    <<"#8e44ad", "#e74c3c", "#34495e", "#16a085", "#1abc9c", "#f39c12", "#7f8c8d",
      "#e67e22", "#3498db">>
contam_elements == <<"As/Pb/Zn", "As/Cu", "As/Cu/Zn", "Pb/Zn">>
contam_colors == <<"#e74c3c", "#c0392b", "#a93226", "#922b21">>

\* min(len(a), len(b)): the number of pairs of zip(a, b)
ZipLen(a, b) == IF Len(a) < Len(b) THEN Len(a) ELSE Len(b)

CMM == script = "critical_minerals_map"

\* (a variant for checking C13: a file that fails ends the loop)
cmm_load_break ==
    /\ CMM /\ pc = "start" /\ idx < Len(csv_files)
    /\ \/ LET df == read_csv(idx + 1)
          IN  /\ dfs' = Append(dfs, df)
              /\ idx' = idx + 1
              /\ printed' = Append(printed, [line |-> "Loaded", n |-> Len(df),
                                             file |-> csv_files[idx + 1]])
       \/ /\ dfs' = dfs
          /\ idx' = Len(csv_files)
          /\ printed' = Append(printed, [line |-> "Warning: Could not load",
                                         file |-> csv_files[idx + 1],
                                         e |-> LoadError[idx + 1]])
    /\ UNCHANGED <<fpu, script, pc, ncalls, last_call, prev_call, frames, datasets, figures,
                   output, error>>

\* one pass of the load loop: the next file of csv_files is read; the read
\* succeeds (the frame is appended, a line printed) or raises (a warning is
\* printed)
cmm_load ==
    /\ CMM /\ pc = "start" /\ idx < Len(csv_files)
    /\ idx' = idx + 1
    /\ \/ LET df == read_csv(idx + 1)
          IN  /\ dfs' = Append(dfs, df)
              /\ printed' = Append(printed, [line |-> "Loaded", n |-> Len(df),
                                             file |-> csv_files[idx + 1]])
       \/ /\ dfs' = dfs
          /\ printed' = Append(printed, [line |-> "Warning: Could not load",
                                         file |-> csv_files[idx + 1],
                                         e |-> LoadError[idx + 1]])
    /\ UNCHANGED <<fpu, script, pc, ncalls, last_call, prev_call, frames, datasets, figures, output,
                   error>>

\* combined_df = pd.concat(dfs, ignore_index=True): raises ValueError on an
\* empty list, which ends the script
cmm_concat ==
    /\ CMM /\ pc = "start" /\ idx = Len(csv_files)
    /\ IF dfs = <<>>
       THEN /\ error' = "ValueError: No objects to concatenate"
            /\ pc' = "exit"
            /\ UNCHANGED <<frames, printed>>
       ELSE /\ frames' = ("combined_df" :> concat(dfs))
            /\ printed' = Append(printed, [line |-> "Total sites loaded",
                                           n |-> Len(concat(dfs))])
            /\ pc' = "concat"
            /\ error' = error
    /\ UNCHANGED <<fpu, script, ncalls, last_call, prev_call, idx, dfs, datasets, figures, output>>

\* minerals_df, contamination_df and the two lines printed
cmm_split ==
    /\ CMM /\ pc = "concat"
    /\ LET minerals_df == WhereNe(frames["combined_df"], "Deposit_Type", "Superfund")
           contamination_df == WhereEq(frames["combined_df"], "Deposit_Type", "Superfund")
       IN  /\ frames' = ("minerals_df" :> minerals_df)
                        @@ ("contamination_df" :> contamination_df) @@ frames
           /\ printed' = printed \o
                  << [line |-> "Critical minerals sites", n |-> Len(minerals_df)],
                     [line |-> "Contamination sites", n |-> Len(contamination_df)] >>
    /\ pc' = "split"
    /\ UNCHANGED <<fpu, script, ncalls, last_call, prev_call, idx, dfs, datasets, figures, output,
                   error>>

\* deposits_data and contamination_data
cmm_data ==
    /\ CMM /\ pc = "split"
    /\ datasets' = ("deposits_data" :> ColumnDict(frames["minerals_df"]))
                   @@ ("contamination_data" :> ColumnDict(frames["contamination_df"]))
    /\ pc' = "data"
    /\ UNCHANGED <<fpu, script, ncalls, last_call, prev_call, idx, dfs, printed, frames, figures,
                   output, error>>

\* the conversion of the deposits, then of the contamination sites
cmm_convert_deposits ==
    /\ CMM /\ pc = "data"
    /\ datasets' = [datasets EXCEPT !["deposits_data"] = cmm_convert(@)]
    /\ pc' = "converted deposits"
    /\ UNCHANGED <<fpu, script, ncalls, last_call, prev_call, idx, dfs, printed, frames, figures,
                   output, error>>

cmm_convert_contamination ==
    /\ CMM /\ pc = "converted deposits"
    /\ datasets' = [datasets EXCEPT !["contamination_data"] = cmm_convert(@)]
    /\ pc' = "converted"
    /\ UNCHANGED <<fpu, script, ncalls, last_call, prev_call, idx, dfs, printed, frames, figures,
                   output, error>>

\* the colour columns
cmm_colors ==
    /\ CMM /\ pc = "converted"
    /\ datasets' =
          [datasets EXCEPT
              !["deposits_data"] = Put(@, "color", GetAll(cmm_element_colors, @.element, "#95a5a6")),
              !["contamination_data"] = Put(@, "color", GetAll(cmm_element_colors, @.element, "#e74c3c"))]
    /\ pc' = "colors"
    /\ UNCHANGED <<fpu, script, ncalls, last_call, prev_call, idx, dfs, printed, frames, figures,
                   output, error>>

\* (a variant for checking C12: the size columns are never assigned)
cmm_sizes_skipped ==
    /\ CMM /\ pc = "colors"
    /\ pc' = "sizes"
    /\ UNCHANGED <<fpu, script, ncalls, last_call, prev_call, idx, dfs, printed, frames,
                   datasets, figures, output, error>>

\* the size columns
cmm_sizes ==
    /\ CMM /\ pc = "colors"
    /\ datasets' =
          [datasets EXCEPT
              !["deposits_data"] = Put(@, "size", GetAll(cmm_status_sizes, @.status, 10)),
              !["contamination_data"] = Put(@, "size", GetAll(cmm_status_sizes, @.status, 18))]
    /\ pc' = "sizes"
    /\ UNCHANGED <<fpu, script, ncalls, last_call, prev_call, idx, dfs, printed, frames, figures,
                   output, error>>

\* the two data sources and output_file(...)
cmm_output_file ==
    /\ CMM /\ pc = "sizes"
    /\ datasets' = ("source" :> datasets["deposits_data"])
                   @@ ("source_contamination" :> datasets["contamination_data"])
                   @@ datasets
    /\ output' = [output EXCEPT !.filename = "critical_minerals_usa.html"]
    /\ pc' = "output_file"
    /\ UNCHANGED <<fpu, script, ncalls, last_call, prev_call, idx, dfs, printed, frames, figures,
                   error>>

\* the corner (lat, lon) of a bounds table, projected
cmm_corner(b) ==
    LET xy == cmm_lat_lon_to_web_mercator(Scalar(ParseFloat(b[1])), Scalar(ParseFloat(b[2])))
    IN  <<xy[1].v, xy[2].v>>

\* the US bounds, p1 and its legend
cmm_p1 ==
    /\ CMM /\ pc = "output_file"
    /\ LET lo == cmm_corner(cmm_bounds[1])
           hi == cmm_corner(cmm_bounds[2])
           off_x == FloatSub(lo[1], DInt(10000000))
           off_y == lo[2]
       IN  figures' =
              ("bounds" :> [x_min |-> lo[1], y_min |-> lo[2], x_max |-> hi[1],
                            y_max |-> hi[2], off_x |-> off_x, off_y |-> off_y])
              @@ ("p1" :> cmm_legend(Figure(lo[1], hi[1], lo[2], hi[2], <<Scatter("source")>>),
                                     unique_elements, legend_colors, 12, off_x, off_y,
                                     ZipLen(unique_elements, legend_colors)))
    /\ pc' = "p1"
    /\ UNCHANGED <<fpu, script, ncalls, last_call, prev_call, idx, dfs, printed, frames, datasets,
                   output, error>>

\* the Alaska bounds and p2
cmm_p2 ==
    /\ CMM /\ pc = "p1"
    /\ LET lo == cmm_corner(cmm_bounds[3])
           hi == cmm_corner(cmm_bounds[4])
       IN  figures' = ("p2" :> Figure(lo[1], hi[1], lo[2], hi[2], <<Scatter("source")>>)) @@ figures
    /\ pc' = "p2"
    /\ UNCHANGED <<fpu, script, ncalls, last_call, prev_call, idx, dfs, printed, frames, datasets,
                   output, error>>

\* p3 and its legend
cmm_p3 ==
    /\ CMM /\ pc = "p2"
    /\ LET b == figures["bounds"]
       IN  figures' =
              ("p3" :> cmm_legend(Figure(b.x_min, b.x_max, b.y_min, b.y_max,
                                         <<Scatter("source_contamination")>>),
                                  contam_elements, contam_colors, 18, b.off_x, b.off_y,
                                  ZipLen(contam_elements, contam_colors)))
              @@ figures
    /\ pc' = "p3"
    /\ UNCHANGED <<fpu, script, ncalls, last_call, prev_call, idx, dfs, printed, frames, datasets,
                   output, error>>

\* the document of a script: its figures and the data of their sources
Document == [figures |-> figures, data |-> datasets]

\* save(layout), and the lines printed after it
cmm_save ==
    /\ CMM /\ pc = "p3"
    /\ output' = [output EXCEPT !.saved = Append(@, [filename |-> output.filename,
                                                     layout |-> Document])]
    /\ printed' = printed \o
          << [line |-> "Critical Minerals Map saved to critical_minerals_usa.html"],
             [line |-> "Critical minerals sites", n |-> Len(datasets["deposits_data"].name)],
             [line |-> "Contamination sites", n |-> Len(datasets["contamination_data"].name)],
             [line |-> "Total sites mapped",
              n |-> Len(datasets["deposits_data"].name)
                    + Len(datasets["contamination_data"].name)] >>
    /\ pc' = "exit"
    /\ UNCHANGED <<fpu, script, ncalls, last_call, prev_call, idx, dfs, frames, datasets, figures,
                   error>>

(***************************************************************************)
(* maps.py                                                                 *)
(***************************************************************************)
MAPS == script = "maps"

\* (a variant for checking C8: the whole elements string is looked up)
maps_deposit_color_whole(elements) ==
    IF In(elements, maps_element_colors) THEN Item(maps_element_colors, elements)
    ELSE Get(maps_element_colors, "Multi-element", "#6C757D")

\* the colour of a deposit: that of its primary element, elements.split(',')[0].strip()
maps_deposit_color(elements) ==
    LET primary == Strip(SplitFirst(elements, ","))
    IN  IF In(primary, maps_element_colors) THEN Item(maps_element_colors, primary)
        ELSE Get(maps_element_colors, "Multi-element", "#6C757D")

\* (a variant for checking C20: every status that has a marker shape is
\* given a size above the default)
maps_deposit_size_by_marker(status) ==
    IF status = "Operating" THEN 18
    ELSE IF In(status, status_markers) THEN 15
    ELSE 12

\* the size of a deposit, by its status
maps_deposit_size(status) ==
    IF status = "Operating" THEN 18
    ELSE IF status = "Development" THEN 15
    ELSE 12

\* the colour and the size of a contamination site
maps_contam_color == "#DC2F02"
maps_contam_size(status) == IF Contains(status, "Superfund") THEN 16 ELSE 12

\* the projection of a literal (lat, lon) of maps.py, as a pair of floats
maps_point(lat, lon) ==
    LET xy == maps_lat_lon_to_web_mercator(Scalar(ParseFloat(lat)), Scalar(ParseFloat(lon)))
    IN  <<xy[1].v, xy[2].v>>

\* the dict of empty lists both loops start from
maps_empty_data ==
    [x |-> <<>>, y |-> <<>>, name |-> <<>>, elements |-> <<>>, type |-> <<>>,
     status |-> <<>>, notes |-> <<>>, color |-> <<>>, size |-> <<>>]

\* one pass of the deposit loop body over the tuple t
maps_deposit_step(d, t) ==
    LET xy == maps_point(t[2], t[3])
    IN  AppendRow(d, [x |-> xy[1], y |-> xy[2], name |-> t[1], elements |-> t[4],
                      type |-> t[5], status |-> t[6], notes |-> t[7],
                      color |-> maps_deposit_color(t[4]),
                      size |-> maps_deposit_size(t[6])])

\* (a variant for checking C21: the word is looked for in the name as well)
maps_contam_step_by_name(d, t) ==
    LET xy == maps_point(t[2], t[3])
    IN  AppendRow(d, [x |-> xy[1], y |-> xy[2], name |-> t[1], elements |-> t[4],
                      type |-> t[5], status |-> t[6], notes |-> t[7],
                      color |-> maps_contam_color,
                      size |-> IF Contains(t[1], "Superfund") THEN 16
                               ELSE maps_contam_size(t[6])])

\* one pass of the contamination loop body over the tuple t
maps_contam_step(d, t) ==
    LET xy == maps_point(t[2], t[3])
    IN  AppendRow(d, [x |-> xy[1], y |-> xy[2], name |-> t[1], elements |-> t[4],
                      type |-> t[5], status |-> t[6], notes |-> t[7],
                      color |-> maps_contam_color,
                      size |-> maps_contam_size(t[6])])

\* output_file(...) and the four corners
maps_output_file ==
    /\ MAPS /\ pc = "start"
    /\ output' = [output EXCEPT !.filename = "/home/claude/critical_minerals_usa.html"]
    /\ LET us_lo == maps_point(maps_bounds[1][1], maps_bounds[1][2])
           us_hi == maps_point(maps_bounds[2][1], maps_bounds[2][2])
           ak_lo == maps_point(maps_bounds[3][1], maps_bounds[3][2])
           ak_hi == maps_point(maps_bounds[4][1], maps_bounds[4][2])
       IN  figures' = ("bounds" :>
                 [us_x_min |-> us_lo[1], us_y_min |-> us_lo[2],
                  us_x_max |-> us_hi[1], us_y_max |-> us_hi[2],
                  alaska_x_min |-> ak_lo[1], alaska_y_min |-> ak_lo[2],
                  alaska_x_max |-> ak_hi[1], alaska_y_max |-> ak_hi[2]])
    /\ datasets' = ("deposit_data" :> maps_empty_data)
    /\ idx' = 0
    /\ pc' = "deposits"
    /\ UNCHANGED <<fpu, script, ncalls, last_call, prev_call, dfs, printed, frames, error>>

\* one pass of the deposit loop
maps_deposit ==
    /\ MAPS /\ pc = "deposits" /\ idx < Len(deposits)
    /\ datasets' = [datasets EXCEPT !["deposit_data"] = maps_deposit_step(@, deposits[idx + 1])]
    /\ idx' = idx + 1
    /\ UNCHANGED <<fpu, script, pc, ncalls, last_call, prev_call, dfs, printed, frames, figures,
                   output, error>>

\* deposit_source, and the empty contam_data
maps_deposit_source ==
    /\ MAPS /\ pc = "deposits" /\ idx = Len(deposits)
    /\ datasets' = ("deposit_source" :> datasets["deposit_data"])
                   @@ ("contam_data" :> maps_empty_data) @@ datasets
    /\ idx' = 0
    /\ pc' = "contamination"
    /\ UNCHANGED <<fpu, script, ncalls, last_call, prev_call, dfs, printed, frames, figures, output,
                   error>>

\* one pass of the contamination loop
maps_contam ==
    /\ MAPS /\ pc = "contamination" /\ idx < Len(contamination_sites)
    /\ datasets' = [datasets EXCEPT
                       !["contam_data"] = maps_contam_step(@, contamination_sites[idx + 1])]
    /\ idx' = idx + 1
    /\ UNCHANGED <<fpu, script, pc, ncalls, last_call, prev_call, dfs, printed, frames, figures,
                   output, error>>

maps_contam_source ==
    /\ MAPS /\ pc = "contamination" /\ idx = Len(contamination_sites)
    /\ datasets' = ("contam_source" :> datasets["contam_data"]) @@ datasets
    /\ pc' = "sources"
    /\ UNCHANGED <<fpu, script, ncalls, last_call, prev_call, idx, dfs, printed, frames, figures,
                   output, error>>

\* the figure of the first three tabs: the US bounds with their margins
maps_us_figure(b, renderers) ==
    Figure(FloatSub(b.us_x_min, DInt(500000)), FloatAdd(b.us_x_max, DInt(500000)),
           FloatSub(b.us_y_min, DInt(200000)), FloatAdd(b.us_y_max, DInt(200000)),
           renderers)

\* the legend loop of create_deposits_map over the first n items of
\* element_colors
RECURSIVE maps_legend(_, _, _, _)
maps_legend(p, x_off, y_off, n) ==
    IF n = 0 THEN p
    ELSE LET q == maps_legend(p, x_off, y_off, n - 1)
             element == maps_element_colors[n][1]
             color == maps_element_colors[n][2]
             r == [source |-> [x |-> <<x_off>>, y |-> <<y_off>>], x |-> "x", y |-> "y",
                   size |-> 10, fill_color |-> color]
         IN  IF element \notin {"Arsenic", "Multi-element"}
             THEN [q EXCEPT !.renderers = Append(@, r),
                            !.legend = Append(@, [label |-> element,
                                                  renderers |-> <<Len(q.renderers) + 1>>])]
             ELSE q

create_deposits_map ==
    LET b == figures["bounds"]
    IN  maps_legend(maps_us_figure(b, <<Scatter("deposit_source")>>),
                    FloatSub(b.us_x_min, DInt(20000000)),
                    FloatSub(b.us_y_min, DInt(20000000)),
                    Len(maps_element_colors))

create_contamination_map == maps_us_figure(figures["bounds"], <<Scatter("contam_source")>>)

create_combined_map ==
    maps_us_figure(figures["bounds"],
                   << LabelledScatter("deposit_source", "Mineral Deposits"),
                      LabelledScatter("contam_source", "Contamination Sites") >>)

\* (a variant for checking C22: the rows are collected last deposit first)
RECURSIVE ak_data_reversed(_, _)
ak_data_reversed(d, n) ==
    IF n = 0 THEN [k \in DOMAIN d |-> <<>>]
    ELSE LET a == ak_data_reversed(d, n - 1)
         IN  IF deposits[n][2] > 5100 THEN [k \in DOMAIN d |-> <<d[k][n]>> \o a[k]]
             ELSE a

\* ak_data: the rows of deposit_data whose deposit has lat > 51
RECURSIVE ak_data(_, _)
ak_data(d, n) ==
    IF n = 0 THEN [k \in DOMAIN d |-> <<>>]
    ELSE LET a == ak_data(d, n - 1)
         IN  IF deposits[n][2] > 5100 THEN [k \in DOMAIN d |-> Append(a[k], d[k][n])]
             ELSE a

create_alaska_map ==
    LET b == figures["bounds"]
    IN  Figure(b.alaska_x_min, b.alaska_x_max, b.alaska_y_min, b.alaska_y_max,
               <<Scatter("ak_source")>>)

\* the four tabs, in the order they are built
maps_tab1 ==
    /\ MAPS /\ pc = "sources"
    /\ figures' = ("tab1" :> create_deposits_map) @@ figures
    /\ pc' = "tab1"
    /\ UNCHANGED <<fpu, script, ncalls, last_call, prev_call, idx, dfs, printed, frames, datasets,
                   output, error>>

maps_tab2 ==
    /\ MAPS /\ pc = "tab1"
    /\ figures' = ("tab2" :> create_contamination_map) @@ figures
    /\ pc' = "tab2"
    /\ UNCHANGED <<fpu, script, ncalls, last_call, prev_call, idx, dfs, printed, frames, datasets,
                   output, error>>

maps_tab3 ==
    /\ MAPS /\ pc = "tab2"
    /\ figures' = ("tab3" :> create_combined_map) @@ figures
    /\ pc' = "tab3"
    /\ UNCHANGED <<fpu, script, ncalls, last_call, prev_call, idx, dfs, printed, frames, datasets,
                   output, error>>

maps_tab4 ==
    /\ MAPS /\ pc = "tab3"
    /\ datasets' = ("ak_source" :> ak_data(datasets["deposit_data"], Len(deposits)))
                   @@ datasets
    /\ figures' = ("tab4" :> create_alaska_map) @@ figures
    /\ pc' = "tab4"
    /\ UNCHANGED <<fpu, script, ncalls, last_call, prev_call, idx, dfs, printed, frames, output,
                   error>>

\* save(layout) and the line printed
maps_save ==
    /\ MAPS /\ pc = "tab4"
    /\ output' = [output EXCEPT !.saved = Append(@, [filename |-> output.filename,
                                                     layout |-> Document])]
    /\ printed' = Append(printed,
                         [line |-> "Map saved to /home/claude/critical_minerals_usa.html"])
    /\ pc' = "exit"
    /\ UNCHANGED <<fpu, script, ncalls, last_call, prev_call, idx, dfs, frames, datasets, figures,
                   error>>

(***************************************************************************)
(* ree_grant_map.py                                                        *)
(***************************************************************************)
REE == script = "ree_grant_map"

\* the three module-level dicts, in the order of the conversion loop
ree_datasets == <<"ree_deposits", "coal_ash_sites", "mine_tailings">>
ree_literal(name) ==
    IF name = "ree_deposits" THEN ree_deposits
    ELSE IF name = "coal_ash_sites" THEN coal_ash_sites
    ELSE mine_tailings

\* the latitude or longitude list of a dict as an array of floats
ree_array(l) == np_array([k \in 1..Len(l) |-> ParseFloat4(l[k])])

\* the body of the conversion loop
ree_convert_step(dataset) ==
    LET xy == ree_lat_lon_to_web_mercator(ree_array(dataset.latitude),
                                          ree_array(dataset.longitude))
    IN  Put(Put(dataset, "x", xy[1]), "y", xy[2])

\* the marker sizes
ree_deposit_size(r) == IF Contains(r, "Mt") THEN 18 ELSE 12
coal_ash_size(t) == IF Contains(t, "Superfund") \/ Contains(t, "Disaster") THEN 20 ELSE 12
\* (int raises ValueError when the first word is not a number)
mine_tailings_size_raises(c) == Contains(c, "ppm") /\ IntRaises(FirstWord(c))
mine_tailings_size(c) ==
    IF Contains(c, "ppm") /\ int(FirstWord(c)) > 500 THEN 16 ELSE 12

\* the marker colours
us_states ==
    {"California", "Wyoming", "Alaska", "Texas", "Nebraska", "Missouri", "Colorado",
     "Idaho", "New Mexico"}
ree_deposit_color(s) == IF Contains(s, "US") \/ s \in us_states THEN "#e74c3c" ELSE "#95a5a6"
coal_ash_color(t) ==
    IF Contains(t, "Superfund") \/ Contains(t, "Disaster") THEN "#c0392b" ELSE "#e67e22"
mine_tailings_number(c) == Remove(Remove(FirstWord(c), "%"), "ppm")
mine_tailings_color_raises(c) == ~Contains(c, "7%") /\ IntRaises(mine_tailings_number(c))
mine_tailings_color(c) ==
    IF Contains(c, "7%") \/ int(mine_tailings_number(c)) > 500 THEN "#16a085" ELSE "#1abc9c"

\* the hand-built legends: (label, color, size)
ree_legend_items ==
    << <<"US REE Deposit", "#e74c3c", 18>>, <<"International REE", "#95a5a6", 12>> >>
coal_legend_items ==
    << <<"Superfund/Disaster Site", "#c0392b", 20>>,
       <<"Operating Coal Ash Facility", "#e67e22", 12>> >>
tailings_legend_items ==
    << <<"High REE (>500 ppm or monazite)", "#16a085", 16>>,
       <<"Moderate REE (<500 ppm)", "#1abc9c", 12>> >>

\* the legend loop over the first n items
RECURSIVE ree_legend(_, _, _, _, _)
ree_legend(p, items, off_x, off_y, n) ==
    IF n = 0 THEN p
    ELSE LET q  == ree_legend(p, items, off_x, off_y, n - 1)
             ds == [x |-> <<off_x>>,
                    y |-> <<FloatAdd(off_y, FloatMul(DInt(n - 1), LegendSpacing))>>]
             sc == [source |-> ds, x |-> "x", y |-> "y", fill_color |-> items[n][2],
                    size |-> items[n][3]]
         IN  [q EXCEPT !.renderers = Append(@, sc),
                       !.legend = Append(@, [label |-> items[n][1],
                                             renderers |-> <<Len(q.renderers) + 1>>])]

\* one pass of the conversion loop
ree_convert ==
    /\ REE /\ pc = "start" /\ idx < Len(ree_datasets)
    /\ datasets' = (ree_datasets[idx + 1] :> ree_convert_step(ree_literal(ree_datasets[idx + 1])))
                   @@ datasets
    /\ idx' = idx + 1
    /\ UNCHANGED <<fpu, script, pc, ncalls, last_call, prev_call, dfs, printed, frames, figures,
                   output, error>>

\* the three size columns; a ValueError of int ends the script
ree_sizes ==
    /\ REE /\ pc = "start" /\ idx = Len(ree_datasets)
    /\ IF \E k \in DOMAIN mine_tailings.ree_content :
             mine_tailings_size_raises(mine_tailings.ree_content[k])
       THEN /\ error' = "ValueError: invalid literal for int()"
            /\ pc' = "exit"
            /\ datasets' =
                 [datasets EXCEPT
                    !["ree_deposits"] = Put(@, "size",
                        [k \in DOMAIN @.resource |-> ree_deposit_size(@.resource[k])]),
                    !["coal_ash_sites"] = Put(@, "size",
                        [k \in DOMAIN @.site_type |-> coal_ash_size(@.site_type[k])])]
       ELSE /\ error' = error
            /\ pc' = "sizes"
            /\ datasets' =
                 [datasets EXCEPT
                    !["ree_deposits"] = Put(@, "size",
                        [k \in DOMAIN @.resource |-> ree_deposit_size(@.resource[k])]),
                    !["coal_ash_sites"] = Put(@, "size",
                        [k \in DOMAIN @.site_type |-> coal_ash_size(@.site_type[k])]),
                    !["mine_tailings"] = Put(@, "size",
                        [k \in DOMAIN @.ree_content |->
                            mine_tailings_size(@.ree_content[k])])]
    /\ UNCHANGED <<fpu, script, ncalls, last_call, prev_call, idx, dfs, printed, frames, figures,
                   output>>

\* the three colour columns
ree_colors ==
    /\ REE /\ pc = "sizes"
    /\ IF \E k \in DOMAIN mine_tailings.ree_content :
             mine_tailings_color_raises(mine_tailings.ree_content[k])
       THEN /\ error' = "ValueError: invalid literal for int()"
            /\ pc' = "exit"
            /\ datasets' =
                 [datasets EXCEPT
                    !["ree_deposits"] = Put(@, "color",
                        [k \in DOMAIN @.state |-> ree_deposit_color(@.state[k])]),
                    !["coal_ash_sites"] = Put(@, "color",
                        [k \in DOMAIN @.site_type |-> coal_ash_color(@.site_type[k])])]
       ELSE /\ error' = error
            /\ pc' = "colors"
            /\ datasets' =
                 [datasets EXCEPT
                    !["ree_deposits"] = Put(@, "color",
                        [k \in DOMAIN @.state |-> ree_deposit_color(@.state[k])]),
                    !["coal_ash_sites"] = Put(@, "color",
                        [k \in DOMAIN @.site_type |-> coal_ash_color(@.site_type[k])]),
                    !["mine_tailings"] = Put(@, "color",
                        [k \in DOMAIN @.ree_content |->
                            mine_tailings_color(@.ree_content[k])])]
    /\ UNCHANGED <<fpu, script, ncalls, last_call, prev_call, idx, dfs, printed, frames, figures,
                   output>>

\* the three data sources and output_file(...)
ree_output_file ==
    /\ REE /\ pc = "colors"
    /\ datasets' = ("source_ree" :> datasets["ree_deposits"])
                   @@ ("source_coal" :> datasets["coal_ash_sites"])
                   @@ ("source_tailings" :> datasets["mine_tailings"]) @@ datasets
    /\ output' = [output EXCEPT !.filename = "index.html"]
    /\ pc' = "output_file"
    /\ UNCHANGED <<fpu, script, ncalls, last_call, prev_call, idx, dfs, printed, frames, figures,
                   error>>

ree_corner(b) ==
    LET xy == ree_lat_lon_to_web_mercator(Scalar(ParseFloat(b[1])), Scalar(ParseFloat(b[2])))
    IN  <<xy[1].v, xy[2].v>>

\* a figure over the US bounds
ree_figure(b, renderers) == Figure(b.x_min, b.x_max, b.y_min, b.y_max, renderers)

\* the US bounds, p1 and its legend
ree_p1 ==
    /\ REE /\ pc = "output_file"
    /\ LET lo == ree_corner(ree_bounds[1])
           hi == ree_corner(ree_bounds[2])
           b  == [x_min |-> lo[1], y_min |-> lo[2], x_max |-> hi[1], y_max |-> hi[2],
                  off_x |-> FloatSub(lo[1], DInt(10000000)), off_y |-> lo[2]]
       IN  figures' = ("bounds" :> b)
                      @@ ("p1" :> ree_legend(ree_figure(b, <<Scatter("source_ree")>>),
                                             ree_legend_items, b.off_x, b.off_y,
                                             Len(ree_legend_items)))
    /\ pc' = "p1"
    /\ UNCHANGED <<fpu, script, ncalls, last_call, prev_call, idx, dfs, printed, frames, datasets,
                   output, error>>

ree_p2 ==
    /\ REE /\ pc = "p1"
    /\ LET b == figures["bounds"]
       IN  figures' = ("p2" :> ree_legend(ree_figure(b, <<Scatter("source_coal")>>),
                                          coal_legend_items, b.off_x, b.off_y,
                                          Len(coal_legend_items))) @@ figures
    /\ pc' = "p2"
    /\ UNCHANGED <<fpu, script, ncalls, last_call, prev_call, idx, dfs, printed, frames, datasets,
                   output, error>>

ree_p3 ==
    /\ REE /\ pc = "p2"
    /\ LET b == figures["bounds"]
       IN  figures' = ("p3" :> ree_legend(ree_figure(b, <<Scatter("source_tailings")>>),
                                          tailings_legend_items, b.off_x, b.off_y,
                                          Len(tailings_legend_items))) @@ figures
    /\ pc' = "p3"
    /\ UNCHANGED <<fpu, script, ncalls, last_call, prev_call, idx, dfs, printed, frames, datasets,
                   output, error>>

ree_p4 ==
    /\ REE /\ pc = "p3"
    /\ figures' = ("p4" :> ree_figure(figures["bounds"],
                              << LabelledScatter("source_ree", "REE Deposits"),
                                 LabelledScatter("source_coal", "Coal Ash Sites"),
                                 LabelledScatter("source_tailings", "Mine Tailings") >>))
                  @@ figures
    /\ pc' = "p4"
    /\ UNCHANGED <<fpu, script, ncalls, last_call, prev_call, idx, dfs, printed, frames, datasets,
                   output, error>>

\* save(layout) and the lines printed after it
ree_save ==
    /\ REE /\ pc = "p4"
    /\ output' = [output EXCEPT !.saved = Append(@, [filename |-> output.filename,
                                                     layout |-> Document])]
    /\ printed' = printed \o
          << [line |-> "REE Grant Map saved to index.html"],
             [line |-> "REE deposits mapped", n |-> Len(datasets["ree_deposits"].name)],
             [line |-> "Coal ash sites mapped", n |-> Len(datasets["coal_ash_sites"].name)],
             [line |-> "Mine tailings sites mapped",
              n |-> Len(datasets["mine_tailings"].name)],
             [line |-> "Total sites",
              n |-> Len(datasets["ree_deposits"].name) + Len(datasets["coal_ash_sites"].name)
                    + Len(datasets["mine_tailings"].name)] >>
    /\ pc' = "exit"
    /\ UNCHANGED <<fpu, script, ncalls, last_call, prev_call, idx, dfs, frames, datasets, figures,
                   error>>

(***************************************************************************)
(* The specification                                                       *)
(***************************************************************************)
Next ==
    \/ CallScalar \/ CallArrays \/ CallPlotMines \/ CallPlotSheetTypes
    \/ CallTooltips
    \/ cmm_load \/ cmm_concat \/ cmm_split \/ cmm_data \/ cmm_convert_deposits
    \/ cmm_convert_contamination \/ cmm_colors \/ cmm_sizes \/ cmm_output_file
    \/ cmm_p1 \/ cmm_p2 \/ cmm_p3 \/ cmm_save
    \/ maps_output_file \/ maps_deposit \/ maps_deposit_source \/ maps_contam
    \/ maps_contam_source \/ maps_tab1 \/ maps_tab2 \/ maps_tab3 \/ maps_tab4 \/ maps_save
    \/ ree_convert \/ ree_sizes \/ ree_colors \/ ree_output_file
    \/ ree_p1 \/ ree_p2 \/ ree_p3 \/ ree_p4 \/ ree_save

Spec == Init /\ [][Next]_vars

(***************************************************************************)
(* Properties                                                              *)
(***************************************************************************)
\* the last call was a call of the projection, on scalars / on arrays
ProjectionCalled == last_call.fn \in Projections
ScalarCall == ProjectionCalled /\ last_call.args[1].shape = "scalar"
ArrayCall == ProjectionCalled /\ last_call.args[1].shape = "array"

\* R * radians(lon) and R * ln(tan(pi/4 + radians(lat)/2)) with R = 6378137,
\* in float64, for one latitude and one longitude
FormulaX(lon) == FloatMul(DInt(6378137), Radians(lon))
FormulaY(lat) ==
    FloatMul(DInt(6378137),
             Log(Tan(FloatAdd(FloatDiv(fpu.pi, fpu.four), FloatDiv(Radians(lat), fpu.two)))))

\* C1: every call of lat_lon_to_web_mercator returns x = R * radians(lon) and
\* y = R * ln(tan(pi/4 + radians(lat)/2)) with R = 6378137; on two arrays of
\* equal length n it returns two arrays of length n whose i-th entries are
\* exactly the scalar result for (lat[i], lon[i]).
C1_ProjectionFormula ==
    ProjectionCalled =>
        LET lat == last_call.args[1]
            lon == last_call.args[2]
            out == last_call.out
        IN  IF lat.shape = "scalar"
            THEN out = <<Scalar(FormulaX(lon.v)), Scalar(FormulaY(lat.v))>>
            ELSE /\ out[1].shape = "array" /\ out[2].shape = "array"
                 /\ Len(out[1].v) = Len(lat.v) /\ Len(out[2].v) = Len(lat.v)
                 /\ \A k \in 1..Len(lat.v) :
                       LET one == Project(last_call.fn, Scalar(lat.v[k]), Scalar(lon.v[k]))
                       IN  /\ out[1].v[k] = one[1].v /\ out[2].v[k] = one[2].v
                           /\ out[1].v[k] = FormulaX(lon.v[k])
                           /\ out[2].v[k] = FormulaY(lat.v[k])

\* the library function was called on two arrays of two different points
C1_Witness ==
    /\ ArrayCall /\ last_call.fn = "plotting_utils"
    /\ Len(last_call.args[1].v) = 2
    /\ last_call.args[1].v[1] # last_call.args[1].v[2]
    /\ last_call.out[1].v[1] # last_call.out[1].v[2]

\* the last call projected the scalar point (lat, lon), given in hundredths
\* of a degree
ScalarCallAt(lat, lon) ==
    ScalarCall /\ last_call.args = <<Scalar(ParseFloat(lat)), Scalar(ParseFloat(lon))>>

\* |a - c/scale| <= tol/scale for a double a
Near(a, c, scale, tol) ==
    a.k = "num" /\ DLeq(DAbs(DSub(a, DDecimal(c, scale))), DDecimal(tol, scale))

\* C2 as stated: lat_lon_to_web_mercator(45, -93) returns a point within 1
\* meter of (-10,354,649.5, 5,621,521.5) in both x and y.
C2_Original ==
    ScalarCallAt(4500, -9300) =>
        /\ Near(last_call.out[1].v, -103546495, 10, 10)
        /\ Near(last_call.out[2].v, 56215215, 10, 10)

\* C2, amended: lat_lon_to_web_mercator(45, -93) returns a point within 1
\* meter of (-10,352,712.6, 5,621,521.5) in both x and y.
C2_Amended ==
    ScalarCallAt(4500, -9300) =>
        /\ Near(last_call.out[1].v, -103527126, 10, 10)
        /\ Near(last_call.out[2].v, 56215215, 10, 10)

\* the projection of (45, -93) was computed; its x is more than 1900 m east
\* of the x the claim states
C2_Witness ==
    /\ ScalarCallAt(4500, -9300)
    /\ DLess(DDecimal(-103546495 + 19000, 10), last_call.out[1].v)

\* C3 as stated: lat_lon_to_web_mercator(0, 0) returns exactly (0.0, 0.0).
C3_Original ==
    ScalarCallAt(0, 0) => last_call.out = <<Scalar(DZero), Scalar(DZero)>>

\* C3, amended: lat_lon_to_web_mercator(0, 0) returns x exactly 0.0 and a y
\* within 1e-9 of 0.0 (float64 gives tan(pi/4) just below 1, so y is about
\* -7.08e-10, not 0.0).  The bound checked is 2^-30, which is below 1e-9.
C3_Amended ==
    ScalarCallAt(0, 0) =>
        /\ last_call.out[1] = Scalar(DZero)
        /\ last_call.out[2].v.k = "num"
        /\ DLeq(DAbs(last_call.out[2].v), DDivPow2(DInt(1), 30))

\* the projection of (0, 0) was computed and its y is negative
C3_Witness ==
    /\ ScalarCallAt(0, 0) /\ last_call.fn = "maps"
    /\ DLess(last_call.out[2].v, DZero)

\* two calls of the same projection with the same arguments
SameCall(c, d) ==
    /\ c.fn \in Projections /\ c.fn = d.fn
    /\ c.args[1].shape = d.args[1].shape
    /\ c.args = d.args

\* a step that calls the projection, from the caller
ProjectionStep == ncalls' = ncalls + 1 /\ last_call'.fn \in Projections

\* a step of critical_minerals_map.py that converts the coordinates of a dataset
ConversionStep == CMM /\ pc \in {"data", "converted deposits"} /\ pc' # pc

Lookup(table, label, default) ==
    LET hits == {k \in DOMAIN table : table[k][1] = label}
    IN  IF hits = {} THEN default ELSE table[CHOOSE k \in hits : TRUE][2]

\* critical_minerals_map.py has coloured, and has sized, its datasets
CmmColoured == CMM /\ "deposits_data" \in DOMAIN datasets
               /\ "color" \in DOMAIN datasets["deposits_data"]
CmmSized == CmmColoured /\ "size" \in DOMAIN datasets["deposits_data"]

\* maps.py has started its deposit loop
MapsDeposits == MAPS /\ "deposit_data" \in DOMAIN datasets

\* the size maps.py gives a deposit, as a table
maps_deposit_sizes == << <<"Operating", 18>>, <<"Development", 15>> >>

\* C6: resolving a colour or a size for a label never fails: the result is
\* the table value when the label is a key of the mapping and otherwise the
\* default (critical_minerals_map.py deposits: '#95a5a6' and 10; maps.py
\* deposits: the 'Multi-element' colour '#6C757D' and 12), and no label
\* raises an error.
C6_LookupDefault ==
    /\ CmmColoured =>
          LET d == datasets["deposits_data"]
          IN  /\ error = "none"
              /\ Len(d.color) = Len(d.element)
              /\ \A k \in 1..Len(d.element) :
                    d.color[k] = Lookup(cmm_element_colors, d.element[k], "#95a5a6")
    /\ CmmSized =>
          LET d == datasets["deposits_data"]
          IN  /\ Len(d.size) = Len(d.status)
              /\ \A k \in 1..Len(d.status) :
                    d.size[k] = Lookup(cmm_status_sizes, d.status[k], 10)
    /\ MapsDeposits =>
          LET d == datasets["deposit_data"]
          IN  /\ error = "none"
              /\ Lookup(maps_element_colors, "Multi-element", "") = "#6C757D"
              /\ Len(d.color) = Len(d.elements) /\ Len(d.size) = Len(d.status)
              /\ \A k \in 1..Len(d.elements) :
                    /\ d.color[k] = Lookup(maps_element_colors,
                                           Strip(SplitFirst(d.elements[k], ",")), "#6C757D")
                    /\ d.size[k] = Lookup(maps_deposit_sizes, d.status[k], 12)

\* critical_minerals_map.py has styled a deposit whose element and status are
\* keys of the tables and one whose element and status are not
C6_Witness ==
    /\ CmmSized
    /\ LET d == datasets["deposits_data"]
       IN  /\ \E k \in 1..Len(d.element) :
                 /\ In(d.element[k], cmm_element_colors) /\ In(d.status[k], cmm_status_sizes)
                 /\ d.color[k] # "#95a5a6" /\ d.size[k] # 10
           /\ \E k \in 1..Len(d.element) :
                 /\ ~In(d.element[k], cmm_element_colors) /\ ~In(d.status[k], cmm_status_sizes)
                 /\ d.color[k] = "#95a5a6" /\ d.size[k] = 10

\* the two styled datasets of critical_minerals_map.py
CmmStyled == {"deposits_data", "contamination_data"}

\* C7 as stated: any two records with the same category label get the same
\* colour and any two records with the same status get the same size,
\* whichever dataset the record belongs to.
C7_Original ==
    CmmSized =>
        \A a \in CmmStyled, b \in CmmStyled :
            \A i \in 1..Len(datasets[a].element), j \in 1..Len(datasets[b].element) :
                /\ datasets[a].element[i] = datasets[b].element[j]
                      => datasets[a].color[i] = datasets[b].color[j]
                /\ datasets[a].status[i] = datasets[b].status[j]
                      => datasets[a].size[i] = datasets[b].size[j]

\* C7, amended: within one dataset any two records with the same category
\* label get the same colour and any two records with the same status get the
\* same size, including labels that are not in the mapping; across the two
\* datasets of critical_minerals_map.py this holds for the labels that are
\* keys of the mapping, while a label that is not a key gets the default of
\* its own dataset (deposits '#95a5a6' and 10, contamination '#e74c3c' and 18).
C7_Amended ==
    /\ CmmSized =>
          /\ \A a \in CmmStyled, b \in CmmStyled :
                \A i \in 1..Len(datasets[a].element), j \in 1..Len(datasets[b].element) :
                    /\ (/\ datasets[a].element[i] = datasets[b].element[j]
                        /\ (a = b \/ In(datasets[a].element[i], cmm_element_colors)))
                          => datasets[a].color[i] = datasets[b].color[j]
                    /\ (/\ datasets[a].status[i] = datasets[b].status[j]
                        /\ (a = b \/ In(datasets[a].status[i], cmm_status_sizes)))
                          => datasets[a].size[i] = datasets[b].size[j]
          /\ \A a \in CmmStyled :
                \A i \in 1..Len(datasets[a].element) :
                    /\ ~In(datasets[a].element[i], cmm_element_colors)
                          => datasets[a].color[i] =
                                (IF a = "deposits_data" THEN "#95a5a6" ELSE "#e74c3c")
                    /\ ~In(datasets[a].status[i], cmm_status_sizes)
                          => datasets[a].size[i] = (IF a = "deposits_data" THEN 10 ELSE 18)
    /\ MAPS =>
          \A a \in {"deposit_data", "contam_data"} \cap DOMAIN datasets :
              \A i \in 1..Len(datasets[a].color), j \in 1..Len(datasets[a].color) :
                  /\ datasets[a].elements[i] = datasets[a].elements[j]
                        => datasets[a].color[i] = datasets[a].color[j]
                  /\ datasets[a].status[i] = datasets[a].status[j]
                        => datasets[a].size[i] = datasets[a].size[j]

\* a deposit and a contamination site of critical_minerals_map.py carry the
\* same element and the same status, neither in the mapping, and differ in
\* colour and in size
C7_Witness ==
    /\ CmmSized
    /\ \E i \in 1..Len(datasets["deposits_data"].element),
          j \in 1..Len(datasets["contamination_data"].element) :
          /\ datasets["deposits_data"].element[i] = datasets["contamination_data"].element[j]
          /\ datasets["deposits_data"].status[i] = datasets["contamination_data"].status[j]
          /\ datasets["deposits_data"].color[i] # datasets["contamination_data"].color[j]
          /\ datasets["deposits_data"].size[i] # datasets["contamination_data"].size[j]

\* the first token of a comma-separated label, without surrounding whitespace
FirstToken(label) == Strip(SplitFirst(label, ","))

\* the default colour of a dataset of critical_minerals_map.py
CmmDefaultColor(a) == IF a = "deposits_data" THEN "#95a5a6" ELSE "#e74c3c"

\* C8 as stated: in maps.py and in critical_minerals_map.py a record whose
\* category field holds several comma-separated categories gets the colour of
\* the first token, with surrounding whitespace removed.
C8_Original ==
    /\ CmmColoured =>
          \A a \in CmmStyled :
              \A k \in 1..Len(datasets[a].element) :
                  Contains(datasets[a].element[k], ",")
                     => datasets[a].color[k] =
                           Lookup(cmm_element_colors, FirstToken(datasets[a].element[k]),
                                  CmmDefaultColor(a))
    /\ MapsDeposits =>
          \A k \in 1..Len(datasets["deposit_data"].elements) :
              Contains(datasets["deposit_data"].elements[k], ",")
                 => datasets["deposit_data"].color[k] =
                       Lookup(maps_element_colors,
                              FirstToken(datasets["deposit_data"].elements[k]), "#6C757D")

\* C8, amended: in maps.py a record whose category field holds several
\* comma-separated categories gets the colour of the first token before the
\* first comma, with surrounding whitespace removed, and the later tokens have
\* no effect.  critical_minerals_map.py looks up the whole category string, so
\* there such a record gets the colour of the whole string when that is a key
\* and the default colour of its dataset otherwise.
C8_Amended ==
    /\ MapsDeposits =>
          LET d == datasets["deposit_data"]
          IN  /\ \A k \in 1..Len(d.elements) :
                    Contains(d.elements[k], ",")
                       => d.color[k] = Lookup(maps_element_colors, FirstToken(d.elements[k]),
                                              "#6C757D")
              /\ \A i \in 1..Len(d.elements), j \in 1..Len(d.elements) :
                    FirstToken(d.elements[i]) = FirstToken(d.elements[j])
                       => d.color[i] = d.color[j]
    /\ CmmColoured =>
          \A a \in CmmStyled :
              \A k \in 1..Len(datasets[a].element) :
                  Contains(datasets[a].element[k], ",")
                     => datasets[a].color[k] =
                           Lookup(cmm_element_colors, datasets[a].element[k],
                                  CmmDefaultColor(a))

\* maps.py has coloured 'Tungsten, Antimony, Gold' as 'Tungsten', and
\* critical_minerals_map.py would colour the same string with its default
C8_Witness ==
    /\ MapsDeposits
    /\ \E k \in 1..Len(datasets["deposit_data"].elements) :
          /\ datasets["deposit_data"].elements[k] = "Tungsten, Antimony, Gold"
          /\ datasets["deposit_data"].color[k] = "#E63946"
    /\ Lookup(cmm_element_colors, "Tungsten, Antimony, Gold", "#95a5a6") = "#95a5a6"

\* a string with its upper-case letters replaced by lower-case ones
UpperCase == "ABCDEFGHIJKLMNOPQRSTUVWXYZ"
LowerCase == "abcdefghijklmnopqrstuvwxyz"
LowerChar(c) ==
    LET hits == {k \in 1..Len(UpperCase) : SubSeq(UpperCase, k, k) = c}
    IN  IF hits = {} THEN c ELSE LET k == CHOOSE j \in hits : TRUE IN SubSeq(LowerCase, k, k)
RECURSIVE Lower(_)
Lower(s) == IF s = "" THEN "" ELSE LowerChar(SubSeq(s, 1, 1)) \o Lower(SubSeq(s, 2, Len(s)))

\* the label is no key of the table, but equals a key up to letter case or
\* has a key as a proper prefix
NearKey(label, table) ==
    /\ label \notin Keys(table)
    /\ \E key \in Keys(table) :
          \/ Lower(key) = Lower(label)
          \/ Len(key) < Len(label) /\ Prefix(label, Len(key)) = key

CmmDefaultSize(a) == IF a = "deposits_data" THEN 10 ELSE 18

\* C9: a label is looked up by exact, case-sensitive string equality: a label
\* that differs from every key only by letter case, or that has a key as a
\* proper prefix, is unrecognised and gets the default style.
C9_ExactMatch ==
    /\ (CmmSized /\ pc = "sizes") =>
          \A a \in CmmStyled :
              \A k \in 1..Len(datasets[a].element) :
                  /\ NearKey(datasets[a].element[k], cmm_element_colors)
                        => datasets[a].color[k] = CmmDefaultColor(a)
                  /\ NearKey(datasets[a].status[k], cmm_status_sizes)
                        => datasets[a].size[k] = CmmDefaultSize(a)
    /\ MapsDeposits =>
          LET d == datasets["deposit_data"]
          IN  \A k \in 1..Len(d.elements) :
                  /\ NearKey(FirstToken(d.elements[k]), maps_element_colors)
                        => d.color[k] = "#6C757D"
                  /\ NearKey(d.status[k], maps_deposit_sizes) => d.size[k] = 12

\* critical_minerals_map.py has styled 'graphite' with status 'operating' and
\* 'Tantalum (byproduct)' with status 'Operating/Resource' by default
C9_Witness ==
    /\ CmmSized /\ pc = "sizes"
    /\ LET d == datasets["deposits_data"]
       IN  /\ \E k \in 1..Len(d.element) :
                 /\ d.element[k] = "graphite" /\ d.status[k] = "operating"
                 /\ d.color[k] = "#95a5a6" /\ d.size[k] = 10
           /\ \E k \in 1..Len(d.element) :
                 /\ d.element[k] = "Tantalum (byproduct)" /\ d.status[k] = "Operating/Resource"
                 /\ d.color[k] = "#95a5a6" /\ d.size[k] = 10

\* the load loop of critical_minerals_map.py is over
CmmLoaded == CMM /\ (pc # "start" \/ idx = Len(csv_files))

\* the k-th file was loaded, by the line printed for it
FileLoaded(k) == printed[k].line = "Loaded"

\* the rows of the first k files that were loaded, in list order, with
\* their coordinates read as floats
RECURSIVE LoadedRows(_)
LoadedRows(k) ==
    IF k = 0 THEN <<>>
    ELSE LoadedRows(k - 1) \o (IF FileLoaded(k) THEN read_csv(k) ELSE <<>>)

\* C10: in critical_minerals_map.py, whenever at least one file loads, a
\* failing file only produces a warning naming the file and the reason, the
\* run continues, and the combined dataset is exactly the rows of the loaded
\* files in list order.
C10_LoadFailures ==
    (CmmLoaded /\ pc # "start" /\ dfs # <<>>) =>
        /\ error = "none"
        /\ \A k \in 1..Len(csv_files) :
              /\ printed[k].file = csv_files[k]
              /\ \/ FileLoaded(k)
                 \/ /\ printed[k].line = "Warning: Could not load"
                    /\ printed[k].e = LoadError[k]
        /\ frames["combined_df"] = LoadedRows(Len(csv_files))
        /\ pc = "exit" => Len(output.saved) = 1

\* the first file failed, the second and the fourth loaded, and the run
\* reached its end with the rows of both in the combined dataset
C10_Witness ==
    /\ CmmLoaded /\ pc = "exit" /\ Len(output.saved) = 1
    /\ ~FileLoaded(1) /\ FileLoaded(2) /\ ~FileLoaded(3) /\ FileLoaded(4)
    /\ Len(frames["combined_df"]) = Len(FileRows[2]) + Len(FileRows[4])

\* C11: in critical_minerals_map.py, whenever the combined dataset has no rows
\* to render (every file failed to load, or every loaded file has zero rows),
\* the run ends in a fatal error and no HTML output is written.
C11_EmptyIsFatal ==
    (CmmLoaded /\ pc = "exit" /\ LoadedRows(Len(csv_files)) = <<>>) =>
        /\ error # "none"
        /\ output.saved = <<>>

\* the datasets each script renders, and the path it writes
MainDatasets ==
    IF CMM THEN {"deposits_data", "contamination_data"}
    ELSE IF MAPS THEN {"deposit_data", "contam_data"}
    ELSE IF REE THEN {"ree_deposits", "coal_ash_sites", "mine_tailings"}
    ELSE {}
OutputPath ==
    IF CMM THEN "critical_minerals_usa.html"
    ELSE IF MAPS THEN "/home/claude/critical_minerals_usa.html"
    ELSE "index.html"
AllFigures ==
    IF CMM THEN {"p1", "p2", "p3"}
    ELSE IF MAPS THEN {"tab1", "tab2", "tab3", "tab4"}
    ELSE {"p1", "p2", "p3", "p4"}

\* the number of records of a dataset, and the length of a coordinate column
\* (a list in maps.py, an array in the other two scripts)
Records(a) ==
    IF a = "deposit_data" THEN Len(deposits)
    ELSE IF a = "contam_data" THEN Len(contamination_sites)
    ELSE Len(datasets[a].name)
CoordLen(c) == IF MAPS THEN Len(c) ELSE Len(c.v)

\* every record of dataset a has its x and y / its colour and size
Transformed(a) ==
    /\ a \in DOMAIN datasets /\ {"x", "y"} \subseteq DOMAIN datasets[a]
    /\ CoordLen(datasets[a].x) = Records(a) /\ CoordLen(datasets[a].y) = Records(a)
Styled(a) ==
    /\ a \in DOMAIN datasets /\ {"color", "size"} \subseteq DOMAIN datasets[a]
    /\ Len(datasets[a].color) = Records(a) /\ Len(datasets[a].size) = Records(a)

\* a figure has been built
Rendering == (DOMAIN figures) \cap AllFigures # {}

CmmNext ==
    \/ cmm_load \/ cmm_concat \/ cmm_split \/ cmm_data \/ cmm_convert_deposits
    \/ cmm_convert_contamination \/ cmm_colors \/ cmm_sizes \/ cmm_output_file
    \/ cmm_p1 \/ cmm_p2 \/ cmm_p3 \/ cmm_save

\* the positions of critical_minerals_map.py
CmmLabels ==
    {"start", "concat", "split", "data", "converted deposits", "converted", "colors",
     "sizes", "output_file", "p1", "p2", "p3", "exit"}

\* the interpreter executes a statement: the script has not exited, and pc or
\* the index of the load loop moves
CmmRuns ==
    /\ CMM /\ pc # "exit"
    /\ \E p \in CmmLabels, j \in 0..Len(csv_files) : pc' = p /\ idx' = j

\* critical_minerals_map.py run on its own, to its end: while the script has
\* not exited a statement is executed (the interpreter runs the module top to
\* bottom and nothing suspends it)
CmmInit == Init /\ CMM
FairSpec == CmmInit /\ [][CmmNext]_vars /\ WF_<<pc, idx>>(CmmRuns)

\* the lines printed by load attempts
LoadLines == {"Loaded", "Warning: Could not load"}

\* the attempts made so far are one per file, in list order; once the loop
\* is left all nine files have been attempted, and nothing is attempted later
AttemptsInOrder ==
    CMM =>
        /\ idx <= Len(csv_files)
        /\ pc = "start" => Len(printed) = idx
        /\ pc # "start" => idx = Len(csv_files)
        /\ Len(printed) >= idx
        /\ \A k \in 1..Len(printed) :
              IF k <= idx
              THEN printed[k].line \in LoadLines /\ printed[k].file = csv_files[k]
              ELSE printed[k].line \notin LoadLines
        /\ Len(dfs) = Cardinality({k \in 1..idx : printed[k].line = "Loaded"})

\* critical_minerals_map.py has ended, at its save or at a fatal error
CmmEnded ==
    /\ CMM /\ pc = "exit"
    /\ \/ error = "none" /\ Len(output.saved) = 1
       \/ error # "none" /\ output.saved = <<>>

\* C13: in critical_minerals_map.py each of the nine listed CSV files is
\* attempted exactly once, in list order; a failed file is never retried and
\* never stops the attempts on the files after it; and every run terminates,
\* either at the final save or at a fatal error.
C13_LoadLoop == []AttemptsInOrder /\ (CMM ~> CmmEnded)

\* a run in which the first and the eighth file failed and the ninth was
\* still attempted and loaded has ended at its save
C13_Witness ==
    /\ CmmEnded /\ error = "none"
    /\ printed[1].line = "Warning: Could not load"
    /\ printed[8].line = "Warning: Could not load"
    /\ printed[9].line = "Loaded" /\ printed[9].file = csv_files[9]

\* a latitude at or beyond the Mercator singularity
Singular(lat) == DLeq(DInt(90), DAbs(lat))

\* y is +infinity, -infinity or NaN
NotFinite(y) == y.k \in {"inf", "nan"}

\* what float64 gives for y at a singular latitude of the input data: -inf at
\* -90, NaN at 95 (the tangent is negative), and a finite value above 2e8 at
\* 90, where pi/4 + radians(90)/2 is just below pi/2 in float64
SingularY(lat, y) ==
    IF lat = DInt(-90) THEN y = DInf(TRUE)
    ELSE IF lat = DInt(90) THEN y.k = "num" /\ DLess(DInt(200000000), y)
    ELSE y = DNaN

\* the datasets of critical_minerals_map.py hold every loaded row
CmmAllRows ==
    Len(datasets["deposits_data"].name) + Len(datasets["contamination_data"].name)
        = Len(frames["combined_df"])

\* C14 as stated: for a latitude at or beyond the singularity the projection
\* raises no error, returns y as +infinity, -infinity or NaN and x as
\* R * radians(lon), and the script styles and renders the record.
C14_Original ==
    /\ (ScalarCall /\ Singular(last_call.args[1].v)) =>
              /\ last_call.out[1].shape = "scalar" /\ last_call.out[2].shape = "scalar"
              /\ NotFinite(last_call.out[2].v)
              /\ last_call.out[1].v = FormulaX(last_call.args[2].v)
    /\ (CmmSized /\ pc = "exit") =>
          /\ error = "none" /\ CmmAllRows
          /\ \A a \in CmmStyled :
                \A k \in 1..Len(datasets[a].latitude) :
                    Singular(datasets[a].latitude[k]) =>
                        /\ NotFinite(datasets[a].y.v[k])
                        /\ datasets[a].x.v[k] = FormulaX(datasets[a].longitude[k])

\* C14, amended: for a latitude at or beyond the singularity the projection
\* raises no error and no validation rejects the record; y is -infinity at
\* lat = -90, NaN where tan(pi/4 + radians(lat)/2) is negative (lat = 95), and
\* a finite value of about 2.38e8 at lat = 90; x is still R * radians(lon), and
\* the script goes on to style, render and write the record.
C14_Amended ==
    /\ (ScalarCall /\ Singular(last_call.args[1].v)) =>
              /\ last_call.out[1].shape = "scalar" /\ last_call.out[2].shape = "scalar"
              /\ SingularY(last_call.args[1].v, last_call.out[2].v)
              /\ last_call.out[1].v = FormulaX(last_call.args[2].v)
    /\ (CmmSized /\ pc = "exit") =>
          /\ error = "none" /\ CmmAllRows
          /\ Len(output.saved) = 1 /\ output.saved[1].layout.data = datasets
          /\ \A a \in CmmStyled :
                /\ Len(datasets[a].color) = Len(datasets[a].latitude)
                /\ Len(datasets[a].size) = Len(datasets[a].latitude)
                /\ Len(datasets[a].y.v) = Len(datasets[a].latitude)
                /\ \A k \in 1..Len(datasets[a].latitude) :
                      Singular(datasets[a].latitude[k]) =>
                          /\ SingularY(datasets[a].latitude[k], datasets[a].y.v[k])
                          /\ datasets[a].x.v[k] = FormulaX(datasets[a].longitude[k])

\* critical_minerals_map.py has written its file with a record at lat = 90
\* whose y is finite, one at lat = -90 whose y is -infinity and one at
\* lat = 95 whose y is NaN
C14_Witness ==
    /\ CmmSized /\ pc = "exit" /\ Len(output.saved) = 1
    /\ LET d == datasets["deposits_data"]
       IN  /\ \E k \in 1..Len(d.latitude) : d.latitude[k] = DInt(90) /\ d.y.v[k].k = "num"
           /\ \E k \in 1..Len(d.latitude) : d.latitude[k] = DInt(-90) /\ d.y.v[k] = DInf(TRUE)
           /\ \E k \in 1..Len(d.latitude) : d.latitude[k] = DInt(95) /\ d.y.v[k] = DNaN


\* a row whose category and status are both keys of the style tables of
\* critical_minerals_map.py, and one where neither is
CmmKnown(r) == In(r.Element, cmm_element_colors) /\ In(r.Status, cmm_status_sizes)
CmmUnknown(r) == ~In(r.Element, cmm_element_colors) /\ ~In(r.Status, cmm_status_sizes)

\* the same for a tuple of maps.py: its primary element and its status
MapsKnown(t) ==
    In(Strip(SplitFirst(t[4], ",")), maps_element_colors) /\ In(t[6], maps_deposit_sizes)
MapsUnknown(t) ==
    ~In(Strip(SplitFirst(t[4], ",")), maps_element_colors) /\ ~In(t[6], maps_deposit_sizes)

\* the two deposit rows of critical_minerals_map.py are a known one, then an
\* unknown one
CmmTwoRows ==
    /\ CmmSized /\ Len(frames["minerals_df"]) = 2
    /\ CmmKnown(frames["minerals_df"][1]) /\ CmmUnknown(frames["minerals_df"][2])

\* C15: given two input rows in this order, the first with a category and
\* status that are keys of the style tables and the second with a category and
\* status that are not, the styled dataset has exactly two entries in the same
\* order; the first has the mapped colour and size, the second the default
\* colour and size, and both have x and y equal to the projection of their
\* own latitude and longitude (critical_minerals_map.py on two rows; maps.py
\* on every two neighbouring tuples of its list).
C15_TwoRows ==
    /\ CmmTwoRows =>
          LET d == datasets["deposits_data"]
              r == frames["minerals_df"]
          IN  /\ \A c \in DOMAIN d \ {"x", "y"} : Len(d[c]) = 2
              /\ Len(d.x.v) = 2 /\ Len(d.y.v) = 2
              /\ d.name = <<r[1].Name, r[2].Name>>
              /\ d.color = <<Item(cmm_element_colors, r[1].Element), "#95a5a6">>
              /\ d.size = <<Item(cmm_status_sizes, r[1].Status), 10>>
              /\ \A k \in 1..2 : /\ d.x.v[k] = FormulaX(r[k].Longitude)
                                 /\ d.y.v[k] = FormulaY(r[k].Latitude)
    /\ MapsDeposits =>
          LET d == datasets["deposit_data"]
          IN  \A k \in 1..(Len(d.name) - 1) :
                 (MapsKnown(deposits[k]) /\ MapsUnknown(deposits[k + 1])) =>
                    /\ d.name[k] = deposits[k][1] /\ d.name[k + 1] = deposits[k + 1][1]
                    /\ d.color[k] = Item(maps_element_colors,
                                         Strip(SplitFirst(deposits[k][4], ",")))
                    /\ d.size[k] = Item(maps_deposit_sizes, deposits[k][6])
                    /\ d.color[k + 1] = "#6C757D" /\ d.size[k + 1] = 12
                    /\ \A j \in {k, k + 1} :
                          /\ d.x[j] = FormulaX(ParseFloat(deposits[j][3]))
                          /\ d.y[j] = FormulaY(ParseFloat(deposits[j][2]))

\* critical_minerals_map.py has run to its end on the two rows of the
\* tantalum file: 'Tantalum/Tin', 'Historic' and then 'Tantalum (byproduct)',
\* 'Operating/Resource'; the colours and the coordinates of the two differ
\* (the size of 'Historic' is 10, as is the default)
C15_Witness ==
    /\ CmmTwoRows /\ pc = "exit" /\ error = "none"
    /\ datasets["deposits_data"].element = <<"Tantalum/Tin", "Tantalum (byproduct)">>
    /\ datasets["deposits_data"].color[1] # datasets["deposits_data"].color[2]
    /\ datasets["deposits_data"].y.v[1] # datasets["deposits_data"].y.v[2]


\* the point (x, y) is not in the rectangle x_range by y_range of the figure p
Offscreen(x, y, p) ==
    \/ DLess(x, p.x_range[1]) \/ DLess(p.x_range[2], x)
    \/ DLess(y, p.y_range[1]) \/ DLess(p.y_range[2], y)

\* the legend entry e of the figure p names one renderer of p, a scatter of
\* one point, and the point is outside the initial ranges of p
LegendBacked(p, e) ==
    /\ Len(e.renderers) = 1 /\ e.renderers[1] \in DOMAIN p.renderers
    /\ LET r == p.renderers[e.renderers[1]]
       IN  /\ "fill_color" \in DOMAIN r
           /\ Len(r.source.x) = 1 /\ Len(r.source.y) = 1
           /\ DFinite(r.source.x[1]) /\ DFinite(r.source.y[1])
           /\ Offscreen(r.source.x[1], r.source.y[1], p)

\* C16: every legend entry built by hand is backed by exactly one dummy
\* point (a renderer of its own), and every such dummy point lies outside the
\* initial visible extent (x_range by y_range) of the figure it is added to,
\* for every legend of critical_minerals_map.py, maps.py and ree_grant_map.py.
C16_LegendOffscreen ==
    \A f \in (DOMAIN figures) \cap AllFigures :
        LET p == figures[f]
        IN  /\ \A i \in DOMAIN p.legend : LegendBacked(p, p.legend[i])
            /\ \A i, j \in DOMAIN p.legend :
                  i # j => p.legend[i].renderers # p.legend[j].renderers
            /\ Cardinality({i \in DOMAIN p.renderers : "fill_color" \in DOMAIN p.renderers[i]})
                  = Len(p.legend)

\* critical_minerals_map.py has built the nine legend entries of p1 and the
\* four of p3; the last point of p1 is above the first by 8 * 5e5
C16_Witness ==
    /\ CMM /\ pc = "exit" /\ {"p1", "p3"} \subseteq DOMAIN figures
    /\ Len(figures["p1"].legend) = 9 /\ Len(figures["p3"].legend) = 4
    /\ LET p == figures["p1"]
       IN  /\ p.legend[9].label = "Fluorine"
           /\ DLess(p.renderers[p.legend[1].renderers[1]].source.y[1],
                    p.renderers[p.legend[9].renderers[1]].source.y[1])


\* ree_grant_map.py has sized and coloured its three dicts
ReeStyled ==
    /\ REE /\ error = "none" /\ "ree_deposits" \in DOMAIN datasets
    /\ {"size", "color"} \subseteq DOMAIN datasets["ree_deposits"]

\* the (colour, size) pairs of a hand-built legend
LegendPairs(items) == {<<items[i][2], items[i][3]>> : i \in DOMAIN items}

\* C17: in ree_grant_map.py every REE deposit marker is styled as its legend
\* entry and the info panel state: a deposit located in the United States is
\* drawn red '#e74c3c' at size 18 ('US REE Deposit') and a deposit outside the
\* United States is drawn gray '#95a5a6' at size 12 ('International REE'); no
\* deposit has a (colour, size) pair that is not one of these two.
C17_DepositMarkers ==
    ReeStyled =>
        LET d == datasets["ree_deposits"]
        IN  \A k \in 1..Len(d.name) :
               /\ <<d.color[k], d.size[k]>> =
                     IF d.state[k] \in us_states THEN <<"#e74c3c", 18>> ELSE <<"#95a5a6", 12>>
               /\ <<d.color[k], d.size[k]>> \in LegendPairs(ree_legend_items)


\* the last call was a call of plot_mines_by_deposit_type
PlotMinesCalled == last_call.fn = "plot_mines_by_deposit_type"

\* the rows of a frame whose deposit type is t, in order
RowsOfType(rows, t) == SelectSeq(rows, LAMBDA r : r["Deposit Type"] = t)

\* C18: plot_mines_by_deposit_type adds exactly one scatter renderer per
\* distinct non-NaN value of the 'Deposit Type' column and returns a dict whose
\* keys are exactly those values; every row with a non-NaN deposit type is in
\* the data of exactly one renderer, rows with a NaN deposit type are in none,
\* and the marker size is the size column when that column exists and
\* default_size otherwise.
C18_OneRendererPerType ==
    PlotMinesCalled =>
        LET before == last_call.args[1]
            df     == last_call.args[2]
            out    == last_call.out
            types  == {df.rows[k]["Deposit Type"] : k \in DOMAIN df.rows} \ {NaN}
            dict   == out.scatter_renderers
        IN  /\ Len(out.plot) = Len(before) + Cardinality(types)
            /\ Keys(dict) = types /\ Len(dict) = Cardinality(types)
            /\ {dict[i][2] : i \in DOMAIN dict} = (DOMAIN out.plot) \ (DOMAIN before)
            /\ \A t \in types :
                  LET r == out.plot[Item(dict, t)]
                  IN  /\ r.source = RowsOfType(df.rows, t)
                      /\ r.size = IF last_call.args[3] \in Range(df.columns)
                                  THEN [field |-> last_call.args[3]]
                                  ELSE [value |-> last_call.args[4]]
            /\ \A i \in DOMAIN out.plot : \A k \in DOMAIN out.plot[i].source :
                  out.plot[i].source[k]["Deposit Type"] # NaN

\* a call on a mine without a deposit type and a mine with one, in a frame
\* without a size column: one renderer, of the default size, of one row
C18_Witness ==
    /\ PlotMinesCalled
    /\ Len(last_call.args[2].rows) = 2
    /\ last_call.args[2].rows[1]["Deposit Type"] = NaN
    /\ last_call.args[2].rows[2]["Deposit Type"] = "Carbonatite"
    /\ "size" \notin Range(last_call.args[2].columns)
    /\ Len(last_call.out.plot) = 1
    /\ last_call.out.plot[1].size = [value |-> 16]
    /\ Len(last_call.out.plot[1].source) = 1


\* ree_grant_map.py has sized and coloured mine_tailings
TailingsStyled ==
    /\ REE /\ "mine_tailings" \in DOMAIN datasets
    /\ {"size", "color"} \subseteq DOMAIN datasets["mine_tailings"]

\* an REE content above 500 ppm, or the monazite percentage entry
HighRee(c) ==
    IF Contains(c, "monazite") THEN TRUE
    ELSE Contains(c, "ppm") /\ int(FirstWord(c)) > 500

\* C19: in ree_grant_map.py every mine-tailings record gets the 'High REE
\* (>500 ppm or monazite)' style, colour '#16a085' together with size 16,
\* exactly when its REE content is above 500 ppm or is the monazite percentage
\* entry, and the 'Moderate REE' style, colour '#1abc9c' together with size
\* 12, otherwise; no record mixes the colour of one legend entry with the size
\* of the other.
C19_TailingsMarkers ==
    TailingsStyled =>
        LET d == datasets["mine_tailings"]
        IN  \A k \in 1..Len(d.name) :
               /\ <<d.color[k], d.size[k]>> =
                     IF HighRee(d.ree_content[k]) THEN <<"#16a085", 16>> ELSE <<"#1abc9c", 12>>
               /\ <<d.color[k], d.size[k]>> \in LegendPairs(tailings_legend_items)


\* C20: in maps.py a deposit's marker size is 18 when its status is exactly
\* 'Operating', 15 when it is exactly 'Development', and 12 for every other
\* status string (including 'Exploration', 'Historic', 'Resource' and
\* 'Operating/Resource'); the size never depends on the element or on the
\* keys of status_markers.
C20_DepositSize ==
    MapsDeposits =>
        LET d == datasets["deposit_data"]
        IN  /\ \A k \in 1..Len(d.status) :
                  d.size[k] = IF d.status[k] = "Operating" THEN 18
                              ELSE IF d.status[k] = "Development" THEN 15
                              ELSE 12
            /\ \A j, k \in 1..Len(d.status) : d.status[j] = d.status[k] => d.size[j] = d.size[k]
            /\ \A k \in 1..Len(d.status) :
                  d.status[k] \in {"Exploration", "Historic", "Resource", "Operating/Resource"}
                      => d.size[k] = 12

\* maps.py has sized all its deposits: some at 18, some at 15, and at 12 both
\* a status with a marker shape and one without, and deposits of one status
\* and different elements
C20_Witness ==
    /\ MapsDeposits /\ pc = "exit"
    /\ LET d == datasets["deposit_data"]
       IN  /\ {18, 15, 12} \subseteq Range(d.size)
           /\ \E k \in DOMAIN d.status : d.status[k] = "Operating/Resource" /\ d.size[k] = 12
           /\ \E k \in DOMAIN d.status : d.status[k] = "Exploration" /\ d.size[k] = 12
           /\ \E j, k \in DOMAIN d.status :
                 d.status[j] = d.status[k] /\ d.elements[j] # d.elements[k]


\* maps.py has started its contamination loop
MapsContamination == MAPS /\ "contam_data" \in DOMAIN datasets

\* C21: in maps.py every contamination site gets colour '#DC2F02' whatever
\* its elements are, and size 16 exactly when its status field contains the
\* substring 'Superfund', otherwise 12; the site's name (which may itself
\* contain 'Superfund') has no effect on the size.
C21_ContaminationMarkers ==
    MapsContamination =>
        LET d == datasets["contam_data"]
        IN  /\ Len(d.color) = Len(d.name) /\ Len(d.size) = Len(d.name)
            /\ \A k \in 1..Len(d.name) :
                  /\ d.name[k] = contamination_sites[k][1]
                  /\ d.color[k] = "#DC2F02"
                  /\ d.size[k] \in {12, 16}
                  /\ d.size[k] = 16 <=> Contains(contamination_sites[k][6], "Superfund")

\* maps.py has styled all its contamination sites: 'Bunker Hill Superfund',
\* whose status is 'Cleanup Ongoing', has size 12, a site of status
\* 'Superfund' has size 16, and sites of different elements have one colour
C21_Witness ==
    /\ MapsContamination /\ pc = "exit"
    /\ LET d == datasets["contam_data"]
       IN  /\ Len(d.name) = Len(contamination_sites)
           /\ \E k \in DOMAIN d.name :
                 /\ d.name[k] = "Bunker Hill Superfund" /\ d.status[k] = "Cleanup Ongoing"
                 /\ d.size[k] = 12
           /\ \E k \in DOMAIN d.name : d.status[k] = "Superfund" /\ d.size[k] = 16
           /\ \E j, k \in DOMAIN d.name :
                 d.elements[j] # d.elements[k] /\ d.color[j] = d.color[k]


\* the positions in deposits of the deposits whose latitude is above 51
\* degrees, in increasing order
AlaskaIndices == SelectSeq([k \in 1..Len(deposits) |-> k], LAMBDA k : deposits[k][2] > 5100)

\* maps.py has built the data of its Alaska tab
MapsAlaska == MAPS /\ "ak_source" \in DOMAIN datasets

\* C22: in maps.py the Alaska tab's data contains exactly the deposits whose
\* latitude is strictly greater than 51, in their original order, and for
\* each of them every column (x, y, name, elements, type, status, notes,
\* color, size) holds the value computed for that same deposit.
C22_AlaskaRows ==
    MapsAlaska =>
        LET a    == datasets["ak_source"]
            full == datasets["deposit_data"]
        IN  /\ DOMAIN a = {"x", "y", "name", "elements", "type", "status", "notes",
                           "color", "size"}
            /\ \A c \in DOMAIN a :
                  /\ Len(a[c]) = Len(AlaskaIndices)
                  /\ \A i \in 1..Len(AlaskaIndices) : a[c][i] = full[c][AlaskaIndices[i]]
            /\ \A i \in 1..Len(AlaskaIndices) :
                  LET t == deposits[AlaskaIndices[i]]
                  IN  /\ a.name[i] = t[1] /\ a.elements[i] = t[4] /\ a.type[i] = t[5]
                      /\ a.status[i] = t[6] /\ a.notes[i] = t[7]
                      /\ a.x[i] = FormulaX(ParseFloat(t[3]))
                      /\ a.y[i] = FormulaY(ParseFloat(t[2]))
                      /\ a.color[i] = Lookup(maps_element_colors,
                                             Strip(SplitFirst(t[4], ",")), "#6C757D")
                      /\ a.size[i] = Lookup(maps_deposit_sizes, t[6], 12)

\* maps.py has built the Alaska tab from its twelve deposits north of 51
\* degrees, the first 'Scrafford Mine' and the last the second 'Bokan
\* Mountain' entry, while 'Pine Creek Mine' (lat 37.42) is left out
C22_Witness ==
    /\ MapsAlaska /\ pc = "exit"
    /\ Len(datasets["ak_source"].name) = 12
    /\ Len(datasets["deposit_data"].name) = 65
    /\ datasets["ak_source"].name[1] = "Scrafford Mine"
    /\ datasets["ak_source"].name[12] = "Bokan Mountain"
    /\ "Pine Creek Mine" \notin Range(datasets["ak_source"].name)


\* the last call was a call of create_element_tooltips
TooltipsCalled == last_call.fn = "create_element_tooltips"

\* the label each element column is to get
TooltipLabels ==
    << <<"REO_PPM", "Total REE Oxides (REO)">>, <<"CE_PPM", "Cerium (CE)">>,
       <<"Y", "Yttrium (Y)">>, <<"ZZ_PPM", "ZZ (ZZ)">> >>

\* C23: create_element_tooltips(L) returns the 5 fixed leading entries, then
\* exactly one concentration entry per element of L in input order (repeated
\* elements kept), then the 3 fixed trailing entries, so its length is
\* len(L) + 8; the entry for 'REO_PPM' is labelled 'Total REE Oxides (REO)',
\* an element whose code is in ELEMENT_NAMES is labelled 'Name (CODE)', and an
\* element whose code is not in ELEMENT_NAMES is labelled 'CODE (CODE)'
\* without error.
C23_Tooltips ==
    TooltipsCalled =>
        LET L   == last_call.args[1]
            out == last_call.out
        IN  /\ Len(out) = Len(L) + 8
            /\ SubSeq(out, 1, 5) =
                  << <<"Mine", "@{Mine Name}">>, <<"State", "@State">>,
                     <<"Deposit Type", "@{Deposit Type}">>,
                     <<"Primary Commodity", "@{Main Product Commodity}">>, <<"", "">> >>
            /\ SubSeq(out, Len(L) + 6, Len(L) + 8) =
                  << <<"", "">>, <<"Coordinate Source", "@{Coordinate_Source}">>,
                     <<"Verification", "@{Verification_Status}">> >>
            /\ \A i \in 1..Len(L) :
                  out[5 + i] = <<Item(TooltipLabels, L[i]), "@{" \o L[i] \o "}{0.0} ppm">>

\* a call on a list that repeats an element without a name: ['ZZ_PPM',
\* 'ZZ_PPM'] gives ten entries, the sixth and the seventh both 'ZZ (ZZ)';
\* the call before it was on ['REO_PPM', 'CE_PPM']
C23_Witness ==
    /\ TooltipsCalled /\ last_call.args[1] = <<"ZZ_PPM", "ZZ_PPM">>
    /\ Len(last_call.out) = 10
    /\ last_call.out[6][1] = "ZZ (ZZ)" /\ last_call.out[7] = last_call.out[6]
    /\ prev_call.fn = "create_element_tooltips"
    /\ prev_call.args[1] = <<"REO_PPM", "CE_PPM">>
    /\ prev_call.out[6][1] = "Total REE Oxides (REO)" /\ prev_call.out[7][1] = "Cerium (CE)"


\* C24: in plot_mines_by_deposit_type the legend label of a deposit type is
\* the type's name unchanged when the name has at most 35 characters and the
\* first 35 characters followed by '...' when it has more, so a label never
\* exceeds 38 characters; and the labels of the deposit types listed in
\* DEPOSIT_TYPE_TO_SHEET stay pairwise distinct after this truncation.
C24_LegendLabels ==
    PlotMinesCalled =>
        LET out  == last_call.out
            dict == out.scatter_renderers
        IN  /\ \A i \in DOMAIN dict :
                  LET t     == dict[i][1]
                      label == out.plot[dict[i][2]].legend_label
                  IN  /\ Len(t) <= 35 => label = t
                      /\ Len(t) > 35 => /\ Len(label) = 38
                                        /\ SubSeq(label, 1, 35) = SubSeq(t, 1, 35)
                                        /\ SubSeq(label, 36, 38) = "..."
                      /\ Len(label) <= 38
            /\ \A i, j \in DOMAIN dict :
                  (i # j /\ In(dict[i][1], DEPOSIT_TYPE_TO_SHEET)
                         /\ In(dict[j][1], DEPOSIT_TYPE_TO_SHEET))
                      => out.plot[dict[i][2]].legend_label # out.plot[dict[j][2]].legend_label

\* a call on the frame of all seventeen deposit types: seventeen renderers,
\* the label of the 35-character name unchanged and that of the longest name
\* cut to 38 characters
C24_Witness ==
    /\ PlotMinesCalled
    /\ Keys(last_call.out.scatter_renderers) = Keys(DEPOSIT_TYPE_TO_SHEET)
    /\ Len(last_call.out.plot) = 17
    /\ last_call.out.plot[17].legend_label = "Superior-type banded iron formation"
    /\ Len(last_call.out.plot[17].legend_label) = 35
    /\ last_call.out.plot[11].legend_label = "Ultramafic intrusion/layered intrus..."


\* critical_minerals_map.py has split the combined frame
CmmSplit == CMM /\ {"combined_df", "minerals_df", "contamination_df"} \subseteq DOMAIN frames

\* the line printed with the text s, when there is exactly one
PrintedCounts(s) == {printed[k].n : k \in {j \in DOMAIN printed : printed[j].line = s}}

\* C25: in critical_minerals_map.py every row of the combined dataset is
\* placed in exactly one of the two datasets: in the contamination dataset
\* when its Deposit_Type equals 'Superfund' and in the minerals dataset
\* otherwise (including a missing Deposit_Type); the two counts always sum to
\* the total number of loaded rows and the relative order of rows is kept.
C25_Split ==
    CmmSplit =>
        LET all == frames["combined_df"]
            m   == frames["minerals_df"]
            c   == frames["contamination_df"]
        IN  /\ c = SelectSeq(all, LAMBDA r : r.Deposit_Type = "Superfund")
            /\ m = SelectSeq(all, LAMBDA r : r.Deposit_Type # "Superfund")
            /\ Len(m) + Len(c) = Len(all)
            /\ Len(all) = Cardinality({k \in DOMAIN all :
                                          \/ all[k].Deposit_Type = NaN
                                          \/ all[k].Deposit_Type # "Superfund"})
                          + Len(c)
            /\ PrintedCounts("Total sites loaded") = {Len(all)}
            /\ "deposits_data" \in DOMAIN datasets =>
                  /\ datasets["deposits_data"].name = [k \in DOMAIN m |-> m[k].Name]
                  /\ datasets["contamination_data"].name = [k \in DOMAIN c |-> c[k].Name]
            /\ pc = "exit" => PrintedCounts("Total sites mapped") = {Len(all)}

\* critical_minerals_map.py has run to its end with every file but the fifth
\* loaded: the row without a Deposit_Type and the row typed 'superfund' are
\* among the minerals, and 'Yellow Pine Pit' comes before 'Bunker Hill' among
\* the contamination sites
C25_Witness ==
    /\ CmmSplit /\ pc = "exit" /\ error = "none"
    /\ Len(frames["combined_df"]) = 16
    /\ \E k \in DOMAIN frames["minerals_df"] : frames["minerals_df"][k].Deposit_Type = NaN
    /\ \E k \in DOMAIN frames["minerals_df"] :
          frames["minerals_df"][k].Deposit_Type = "superfund"
    /\ datasets["contamination_data"].name
          = <<"Yellow Pine Pit", "Bunker Hill", "Silver Bow Creek">>


\* the points the round trip is checked at, in hundredths of a degree: the
\* origin, (45, -93) and the two ends of the range
RoundTripPoints == {<<0, 0>>, <<4500, -9300>>, <<8499, 18000>>, <<-8499, -18000>>}

\* half of the tolerance of 1e-6 degrees
RoundTripTolerance == DDiv(DInt(1), DInt(2000000))

\* the projection of one longitude and of one latitude given as doubles
ProjectX(lon) == LonRadians(<<>>, lon).rrad
ProjectY(lat) == TraceRadians(<<>>, lat).rlog

\* for each of the points, the projections of the longitudes and latitudes
\* half the tolerance below and above it
RoundTripBounds ==
    Table([p \in RoundTripPoints |->
              [x_lo |-> ProjectX(DSub(DDecimal(p[2], 100), RoundTripTolerance)),
               x_hi |-> ProjectX(DAdd(DDecimal(p[2], 100), RoundTripTolerance)),
               y_lo |-> ProjectY(DSub(DDecimal(p[1], 100), RoundTripTolerance)),
               y_hi |-> ProjectY(DAdd(DDecimal(p[1], 100), RoundTripTolerance))]])

\* The inverse Mercator formula lon = degrees(x/R), lat = degrees(2*atan(
\* exp(y/R)) - pi/2) is the inverse function of the projection, and the
\* projection is increasing in lon and in lat.  So the point it returns for
\* (x, y) is within the tolerance of (lat, lon) when x lies between the
\* projections of lon - tol/2 and lon + tol/2 and y between those of
\* lat - tol/2 and lat + tol/2 (the other half of the tolerance is left for
\* the rounding of the float operations, which is below 1e-12 degrees).
InverseWithin(b, x, y) ==
    /\ DFinite(x) /\ DFinite(y)
    /\ DLess(b.x_lo, x) /\ DLess(x, b.x_hi)
    /\ DLess(b.y_lo, y) /\ DLess(y, b.y_hi)

====
